---- MODULE Spec2Model ----
(***************************************************************************)
(* Model of the agent-orchestration core of function-gemma-agent:          *)
(*   - TracingEngine.react_reasoning_loop and its helpers                  *)
(*     (app/inference/engine.py),                                          *)
(*   - GemmaService.parse_output / _repair_json                            *)
(*     (app/infrastructure/ml/inference.py),                               *)
(*   - ToolRegistry.execute_tool (app/infrastructure/tools/registry.py),   *)
(*   - AgentService.process_request (app/domain/agent.py).                 *)
(*                                                                         *)
(* Text is modelled at lexer level: a string is a sequence of tokens, a    *)
(* token being a maximal run of word characters (\w+), a single            *)
(* punctuation or whitespace character, or one of the atomic markers       *)
(* <start_function_call>, <end_function_call>, <escape>.  Literal pieces   *)
(* of the output templates (never scanned by the code) are single tokens.  *)
(* No word of the vocabulary contains an answer indicator or "call" as a   *)
(* proper substring, so substring search on characters coincides with      *)
(* contiguous-subsequence search on tokens.                                *)
(*                                                                         *)
(* An intermediate value that is used more than once is bound with         *)
(* \E x \in {e} or The({f(x) : x \in {e}}), so that it is computed once.    *)
(***************************************************************************)
EXTENDS Integers, Sequences, FiniteSets, TLC

\* ------------------------------------------------------------------ bounds
MaxSteps == 3

\* ------------------------------------------------------------ text helpers
None == <<"<None>">>

SP == " "
QUOTE == "\""
START == "<start_function_call>"
END == "<end_function_call>"
ESCAPE == "<escape>"

\* the element of a one-element set
The(S) == CHOOSE x \in S : TRUE

IsWhitespace(t) == t \in {" ", "\n"}

\* characters of \w+ / [a-zA-Z_0-9]+ : every token that is not punctuation,
\* whitespace or a marker is a word
IsWord(t) ==
    t \notin {" ", "\n", QUOTE, ":", ",", "{", "}", "'", ".", START, END, ESCAPE}

\* str.lower() on one token
LowerTok(t) ==
    CASE t = "Final" -> "final"
      [] t = "FINAL" -> "final"
      [] t = "Answer" -> "answer"
      [] t = "Therefore" -> "therefore"
      [] t = "Conclusion" -> "conclusion"
      [] OTHER -> t

Lower(s) == [i \in DOMAIN s |-> LowerTok(s[i])]

IsSubAt(p, s, i) ==
    /\ i + Len(p) - 1 <= Len(s)
    /\ \A j \in 1..Len(p) : s[i + j - 1] = p[j]

\* python: p in s
Contains(p, s) == \E i \in 1..Len(s) : IsSubAt(p, s, i)

\* index of the first occurrence of p in s, 0 when absent (str.find + 1)
Find(p, s) ==
    IF Contains(p, s)
    THEN CHOOSE i \in 1..Len(s) :
            IsSubAt(p, s, i) /\ \A k \in 1..(i - 1) : ~IsSubAt(p, s, k)
    ELSE 0

Tail0(s, i) == SubSeq(s, i, Len(s))

\* python: s.split(p), a sequence of parts
RECURSIVE Split(_, _)
Split(s, p) ==
    The({ IF i = 0 THEN <<s>>
          ELSE <<SubSeq(s, 1, i - 1)>>
                \o The({ Split(rest, p) : rest \in {Tail0(s, i + Len(p))} })
          : i \in {Find(p, s)} })

\* python: s.replace(p, r)
RECURSIVE Replace(_, _, _)
Replace(s, p, r) ==
    The({ IF i = 0 THEN s
          ELSE SubSeq(s, 1, i - 1) \o r
                \o The({ Replace(rest, p, r) : rest \in {Tail0(s, i + Len(p))} })
          : i \in {Find(p, s)} })

RECURSIVE LStrip(_)
LStrip(s) ==
    IF s # <<>> /\ IsWhitespace(Head(s))
    THEN The({ LStrip(rest) : rest \in {Tail(s)} }) ELSE s

RECURSIVE RStrip(_)
RStrip(s) ==
    IF s # <<>> /\ IsWhitespace(s[Len(s)])
    THEN The({ RStrip(rest) : rest \in {SubSeq(s, 1, Len(s) - 1)} }) ELSE s

\* python: s.strip()
Strip(s) == The({ RStrip(l) : l \in {LStrip(s)} })

\* python truthiness of a string-or-None value
Truthy(x) == x # None /\ x # <<>>

\* ------------------------------------------- engine.py: answer detection
answer_indicators ==
    { <<"final", SP, "answer">>,
      <<"the", SP, "answer", SP, "is">>,
      <<"conclusion">>,
      <<"based", SP, "on", SP, "the", SP, "information">>,
      <<"therefore">>,
      <<"in", SP, "conclusion">> }

_should_answer_case_sensitive(thought) ==
    \E indicator \in answer_indicators : Contains(indicator, thought)

\* engine.py:402-414  any(indicator in thought.lower() ...)
_should_answer(thought) ==
    \E thought_lower \in {Lower(thought)} :
        \E indicator \in answer_indicators : Contains(indicator, thought_lower)

final_answer_marker == <<"final", SP, "answer", ":">>

_extract_answer(thought) ==
    IF \E thought_lower \in {Lower(thought)} :
            Contains(final_answer_marker, thought_lower)
    THEN The({ IF Len(parts) > 1 THEN Strip(parts[Len(parts)]) ELSE thought
               : parts \in {Split(thought, final_answer_marker)} })
    ELSE thought

\* ------------------------------------------------ json (inference.py:81)
\* A mapping is a sequence of <<key, value>> pairs in insertion order; a key
\* is the token sequence between the quotes, a value is <<kind>> \o content
\* with kind in {"str", "num", "lit"}.
NumberTokens == {"0", "1", "42"}
LiteralTokens == {"true", "false", "null"}

JsonFail == [ok |-> FALSE, val |-> <<>>, next |-> 0]

RECURSIVE SkipWs(_, _)
SkipWs(s, i) ==
    IF i <= Len(s) /\ IsWhitespace(s[i]) THEN SkipWs(s, i + 1) ELSE i

\* position of the closing quote of the string opened at i - 1, 0 if none
RECURSIVE ClosingQuote(_, _)
ClosingQuote(s, i) ==
    IF i > Len(s) THEN 0
    ELSE IF s[i] = QUOTE THEN i ELSE ClosingQuote(s, i + 1)

ParseString(s, i) ==
    IF i <= Len(s) /\ s[i] = QUOTE
    THEN The({ IF j = 0 THEN JsonFail
               ELSE [ok |-> TRUE, val |-> SubSeq(s, i + 1, j - 1), next |-> j + 1]
               : j \in {ClosingQuote(s, i + 1)} })
    ELSE JsonFail

ParseValue(s, i) ==
    IF i > Len(s) THEN JsonFail
    ELSE IF s[i] = QUOTE
         THEN The({ IF r.ok THEN [r EXCEPT !.val = <<"str">> \o r.val]
                    ELSE JsonFail : r \in {ParseString(s, i)} })
    ELSE IF s[i] \in NumberTokens
         THEN [ok |-> TRUE, val |-> <<"num", s[i]>>, next |-> i + 1]
    ELSE IF s[i] \in LiteralTokens
         THEN [ok |-> TRUE, val |-> <<"lit", s[i]>>, next |-> i + 1]
    ELSE JsonFail

\* dict[key] = value: a repeated key keeps its position and takes the new value
DictSet(d, k, v) ==
    IF \E n \in 1..Len(d) : d[n][1] = k
    THEN [n \in 1..Len(d) |-> IF d[n][1] = k THEN <<k, v>> ELSE d[n]]
    ELSE Append(d, <<k, v>>)

RECURSIVE ParseMembers(_, _, _)
ParseMembers(s, i, acc) ==
    The({ The({ The({
        The({ IF ~k.ok \/ c > Len(s) \/ s[c] # ":" THEN JsonFail
              ELSE IF ~v.ok \/ e > Len(s) THEN JsonFail
              ELSE IF s[e] = "}"
                   THEN [ok |-> TRUE, val |-> DictSet(acc, k.val, v.val),
                         next |-> e + 1]
              ELSE IF s[e] = ","
                   THEN The({ ParseMembers(s, n[1], n[2])
                              : n \in {<<SkipWs(s, e + 1),
                                         DictSet(acc, k.val, v.val)>>} })
              ELSE JsonFail
              : e \in {IF v.ok THEN SkipWs(s, v.next) ELSE 0} })
        : v \in {IF k.ok THEN ParseValue(s, SkipWs(s, c + 1)) ELSE JsonFail} })
        : c \in {IF k.ok THEN SkipWs(s, k.next) ELSE 0} })
        : k \in {ParseString(s, i)} })

\* json.loads on an object text; ok = FALSE stands for JSONDecodeError
json_loads(s) ==
    The({ The({
        The({ IF r.ok /\ SkipWs(s, r.next) = Len(s) + 1
              THEN [ok |-> TRUE, val |-> r.val]
              ELSE [ok |-> FALSE, val |-> <<>>]
              : r \in {IF i > Len(s) \/ s[i] # "{" \/ j > Len(s) THEN JsonFail
                        ELSE IF s[j] = "}"
                             THEN [ok |-> TRUE, val |-> <<>>, next |-> j + 1]
                        ELSE ParseMembers(s, j, <<>>)} })
        : j \in {SkipWs(s, i + 1)} })
        : i \in {SkipWs(s, 1)} })

\* ------------------------------------- inference.py: GemmaService._repair_json
\* The substitutions are written position by position: a match of each
\* pattern starts at one token and matches cannot overlap, so the result is
\* the concatenation of what every position contributes.
RECURSIVE Concat(_, _)
Concat(pieces, n) == IF n = 0 THEN <<>> ELSE Concat(pieces, n - 1) \o pieces[n]

\* rule 2: re.sub(r'(\w+):', r'"\1":')
QuoteKeys(s) ==
    IF s = <<>> THEN <<>>
    ELSE The({ Concat(pieces, Len(s))
               : pieces \in {[n \in 1..Len(s) |->
                    IF IsWord(s[n]) /\ n < Len(s) /\ s[n + 1] = ":"
                    THEN <<QUOTE, s[n], QUOTE>> ELSE <<s[n]>>]} })

\* rule 3: where the match of r':\s*([a-zA-Z_0-9]+)\s*([,}])' that starts at
\* s[n] ends, 0 if none starts there
ValueMatchEnd(s, n) ==
    IF s[n] # ":" THEN 0
    ELSE The({ The({ IF /\ w <= Len(s) /\ IsWord(s[w])
                        /\ d <= Len(s) /\ s[d] \in {",", "}"}
                     THEN d ELSE 0
                     : d \in {SkipWs(s, w + 1)} })
               : w \in {SkipWs(s, n + 1)} })

\* rule 3: re.sub(r':\s*([a-zA-Z_0-9]+)\s*([,}])', r': "\1"\2')
QuoteValues(s) ==
    IF s = <<>> THEN <<>>
    ELSE The({ The({ Concat(pieces, Len(s))
               : pieces \in {[n \in 1..Len(s) |->
                    IF ends[n] # 0
                    THEN <<":", SP, QUOTE, s[SkipWs(s, n + 1)], QUOTE, s[ends[n]]>>
                    ELSE IF \E m \in 1..(n - 1) : ends[m] >= n THEN <<>>
                    ELSE <<s[n]>>]} })
               : ends \in {[n \in 1..Len(s) |-> ValueMatchEnd(s, n)]} })

\* rule 4: re.sub(r':\s*([a-zA-Z_0-9]+)\s*$', r': "\1"')
QuoteLastValue(s) ==
    The({ IF at = {} THEN s
          ELSE The({ SubSeq(s, 1, n - 1)
                        \o <<":", SP, QUOTE, s[SkipWs(s, n + 1)], QUOTE>>
                     : n \in at })
          : at \in {{ n \in 1..Len(s) :
                        /\ s[n] = ":"
                        /\ SkipWs(s, n + 1) <= Len(s)
                        /\ IsWord(s[SkipWs(s, n + 1)])
                        /\ SkipWs(s, SkipWs(s, n + 1) + 1) = Len(s) + 1 }} })

_repair_json_keys_only(json_str) ==
    The({ QuoteKeys(r1) : r1 \in {Replace(json_str, <<ESCAPE>>, <<>>)} })

\* inference.py:43-61  the four rules in order
_repair_json(json_str) ==
    The({ The({ The({ QuoteLastValue(r3)
        : r3 \in {QuoteValues(r2)} })
        : r2 \in {QuoteKeys(r1)} })
        : r1 \in {Replace(json_str, <<ESCAPE>>, <<>>)} })

\* ------------------------------------- inference.py: GemmaService.parse_output
\* Result: none = TRUE is (None, None); otherwise (name, args).  signals is
\* the sequence of record_reasoning_failure kinds emitted by the call.
NoCallGuessesName(sig) ==
    [none |-> FALSE, name |-> <<"unparsed">>, args |-> <<>>, signals |-> sig]

NoCall(sig) == [none |-> TRUE, name |-> None, args |-> <<>>, signals |-> sig]

ZeroArgCallUnstripped(clean_call) ==
    [none |-> FALSE, name |-> clean_call, args |-> <<>>, signals |-> <<>>]

\* inference.py:105-106  return clean_call.strip(), {}
ZeroArgCall(clean_call) ==
    [none |-> FALSE, name |-> Strip(clean_call), args |-> <<>>, signals |-> <<>>]

\* inference.py:75-106  after the call segment was cleaned of its label
ParseCleanCall(clean_call, available_tools) ==
    The({
        IF brace = 0
        THEN ZeroArgCall(clean_call)
        ELSE The({ The({
            IF strict.ok
            THEN [none |-> FALSE, name |-> func_name, args |-> strict.val,
                  signals |-> IF func_name \notin available_tools
                              THEN <<"unknown_tool">> ELSE <<>>]
            ELSE The({
                IF repaired.ok
                THEN [none |-> FALSE, name |-> func_name, args |-> repaired.val,
                      signals |-> <<"invalid_json">>]
                ELSE NoCall(<<"invalid_json", "invalid_json">>)
                : repaired \in {json_loads(_repair_json(Tail0(clean_call, brace)))} })
            : strict \in {json_loads(Tail0(clean_call, brace))} })
            : func_name \in {Strip(SubSeq(clean_call, 1, brace - 1))} })
        : brace \in {Find(<<"{">>, clean_call)} })

parse_output_by_label(generated_text, available_tools) ==
    IF ~Contains(<<"call", ":">>, generated_text) THEN NoCall(<<>>)
    ELSE The({ ParseCleanCall(clean_call, available_tools)
            : clean_call \in
                {Replace(Replace(Replace(generated_text, <<START>>, <<>>),
                                 <<END>>, <<>>), <<"call", ":">>, <<>>)} })

\* inference.py:63-119
parse_output(generated_text, available_tools) ==
    IF ~Contains(<<START>>, generated_text) THEN NoCall(<<>>)
    ELSE The({ The({ ParseCleanCall(clean_call, available_tools)
            : clean_call \in {Replace(call_segment, <<"call", ":">>, <<>>)} })
            : call_segment \in
                {Split(Split(generated_text, <<START>>)[2], <<END>>)[1]} })

\* --------------------------------- registry.py: ToolRegistry.execute_tool
GET_CLUSTER_STATUS == <<"get_cluster_status">>

\* what a tool implementation can do when invoked: return a mapping
\* (rendered with str()) or raise with a message
ToolResults == { <<"{'status': 'HEALTHY'}">> }
ToolErrors == { <<"connection refused">> }
ImplOutcomes ==
    [ok : {TRUE}, value : ToolResults] \cup [ok : {FALSE}, value : ToolErrors]

execute_tool_unchecked(tools, name, arguments, impl) ==
    IF impl.ok
    THEN [ok |-> TRUE, invoked |-> TRUE, outcome |-> "returned",
          value |-> impl.value]
    ELSE [ok |-> FALSE, invoked |-> TRUE, outcome |-> "raised",
          value |-> <<"Error executing '">> \o name \o <<"': ">> \o impl.value]

\* ok = FALSE stands for ToolExecutionError(value)
execute_tool(tools, name, arguments, impl) ==
    IF \A n \in 1..Len(tools) : tools[n] # name
    THEN [ok |-> FALSE, invoked |-> FALSE, outcome |-> "not_found",
          value |-> <<"Tool '">> \o name \o <<"' not found in registry.">>]
    ELSE IF impl.ok
         THEN [ok |-> TRUE, invoked |-> TRUE, outcome |-> "returned",
               value |-> impl.value]
         ELSE [ok |-> FALSE, invoked |-> TRUE, outcome |-> "raised",
               value |-> <<"Error executing '">> \o name \o <<"': ">> \o impl.value]

\* ------------------------------------------- registry.py: ToolRegistry
\* A tool object is its name and which instance of the tool class it is.
SEARCH_KNOWLEDGE_BASE == <<"search_knowledge_base">>

ClusterStatusTool == [name |-> GET_CLUSTER_STATUS, instance |-> "default"]

\* dict.get(name) when the name is absent
NoTool == [name |-> None, instance |-> "none"]

register_appending(keys, objects, tool) ==
    [keys |-> Append(keys, tool.name),
     objects |-> [n \in DOMAIN objects \cup {tool.name} |->
                    IF n = tool.name THEN tool ELSE objects[n]]]

\* registry.py:19-20  self._tools[tool.name] = tool: a name that is present
\* keeps its place in the key order and takes the new object
register(keys, objects, tool) ==
    [keys |-> IF \E n \in 1..Len(keys) : keys[n] = tool.name
              THEN keys ELSE Append(keys, tool.name),
     objects |-> [n \in DOMAIN objects \cup {tool.name} |->
                    IF n = tool.name THEN tool ELSE objects[n]]]

\* registry.py:22-23
get_tool(objects, name) ==
    IF name \in DOMAIN objects THEN objects[name] ELSE NoTool

\* registry.py:25-27
list_tools(keys) == keys

InvocationsWithRetry(r) == IF ~r.invoked THEN 0 ELSE IF r.ok THEN 1 ELSE 2

\* registry.py:39  how often execute_tool calls tool.execute
InvocationsOf(r) == IF r.invoked THEN 1 ELSE 0

\* ------------------------------------ engine.py: TracingEngine helpers
\* [tool['name'] for tool in tools_schema]
SchemaNames(schema) == { schema[n].name : n \in 1..Len(schema) }

AnswerResult(response) ==
    [action |-> "answer", response |-> response, tool |-> None,
     observation |-> None, should_continue |-> FALSE]

ToolCallResultStops(tool, observation) ==
    [action |-> "tool_call", response |-> None, tool |-> tool,
     observation |-> observation, should_continue |-> FALSE]

ToolCallResult(tool, observation) ==
    [action |-> "tool_call", response |-> None, tool |-> tool,
     observation |-> observation, should_continue |-> TRUE]

SuccessCall(tool, arguments, value) ==
    [tool |-> tool, arguments |-> arguments, result |-> value,
     error |-> None, status |-> "success"]

FailedCallAsSuccess(tool, arguments, value) ==
    [tool |-> tool, arguments |-> arguments, result |-> value,
     error |-> None, status |-> "success"]

FailedCallWithResult(tool, arguments, value) ==
    [tool |-> tool, arguments |-> arguments, result |-> value,
     error |-> value, status |-> "failed"]

FailedCall(tool, arguments, value) ==
    [tool |-> tool, arguments |-> arguments, result |-> None,
     error |-> value, status |-> "failed"]

_update_context_without_previous(old_context, thought, observation) ==
    <<"My thought: ">> \o thought \o <<"\n\nObservation: ">> \o observation
        \o <<"\n\nNow, based on this information, what should I do next?">>

\* engine.py:424-432
_update_context(old_context, thought, observation) ==
    <<"Previous context: ">> \o old_context \o <<"\n\nMy thought: ">> \o thought
        \o <<"\n\nObservation: ">> \o observation
        \o <<"\n\nNow, based on this information, what should I do next?">>

_generate_fallback_response(context) ==
    <<"I wasn't able to complete your request within the allowed steps. \nHere's what I found: ">>
        \o context
        \o <<"\n\nIf you need more specific information, please let me know and I'll try a different approach.">>

\* context[:200] + "..." if len(context) > 200 else context  (length in tokens)
ContextSnapshot(context) ==
    IF Len(context) > 200 THEN SubSeq(context, 1, 200) \o <<"...">> ELSE context

\* ------------------------------------------ base.py: BaseTool.to_schema
to_schema(name) ==
    [type |-> "function", function |-> [name |-> name, description |-> "tool"]]

\* registry.py: ToolRegistry.get_all_schemas
get_all_schemas(tools) == [n \in 1..Len(tools) |-> to_schema(tools[n])]

\* agent.py:28  [tool['name'] for tool in tools_schema]; ok = FALSE is KeyError
available_tools(schema) ==
    IF \A n \in 1..Len(schema) : "name" \in DOMAIN schema[n]
    THEN [ok |-> TRUE, names |-> { schema[n].name : n \in 1..Len(schema) }]
    ELSE [ok |-> FALSE, names |-> {}]

\* agent.py:59  name + ":" + json.dumps(args, sort_keys=True): the text is
\* the same for two calls exactly when name and key/value pairs are the same
tool_signature(func_name, func_args) ==
    <<func_name, { func_args[n] : n \in 1..Len(func_args) }>>

\* list.count
Count(seq, x) == Cardinality({ n \in 1..Len(seq) : seq[n] = x })

\* ------------------------------------------------------- generator outputs
CallSegment(body) == <<START, "call", ":">> \o body \o <<END>>

StatusArgs(cluster) ==
    <<"{", QUOTE, "cluster_id", QUOTE, ":", SP, QUOTE, cluster, QUOTE, "}">>

T_plain == <<"cluster", SP, "healthy">>
T_final_lower == <<"final", SP, "answer", ":", SP, "cluster", SP, "healthy">>
T_final_cap == <<"Final", SP, "answer", ":", SP, "cluster", SP, "healthy">>
T_final_empty == <<"final", SP, "answer", ":", SP>>
T_therefore == <<"Therefore", SP, "healthy">>
T_call_prod == CallSegment(GET_CLUSTER_STATUS \o StatusArgs("prod"))
T_call_dev == CallSegment(GET_CLUSTER_STATUS \o StatusArgs("dev"))
T_call_bare ==
    CallSegment(GET_CLUSTER_STATUS \o <<"{", "cluster_id", ":", SP, "prod", "}">>)
T_call_unknown == CallSegment(<<"restart_pod", "{", "}">>)
T_call_broken == CallSegment(GET_CLUSTER_STATUS \o <<"{", "{">>)
T_call_empty == CallSegment(<<SP>>)
T_therefore_call == <<"Therefore", SP>> \o T_call_prod

Thoughts ==
    { T_plain, T_final_lower, T_final_cap, T_final_empty, T_therefore,
      T_call_prod, T_call_dev, T_call_bare, T_call_unknown,
      T_call_broken, T_call_empty, T_therefore_call }

Queries == { <<"is", SP, "prod", SP, "healthy">> }

ToolSchema(name) == [name |-> name, description |-> "tool"]

\* the schema lists handed to react_reasoning_loop carry the tool name at
\* top level, as in tests/validation/test_rag_react.py:124
Schemas == { <<ToolSchema(GET_CLUSTER_STATUS)>> }


DispatchesToolAnyName(p) == ~p.none

\* engine.py:354  if func_name:
DispatchesTool(p) == ~p.none /\ Truthy(p.name)

NoToolCallContinues(thought) == ToolCallResult(None, thought)

\* engine.py:395-400  no tool call: the thought is the answer
NoToolCallResult(thought) == AnswerResult(thought)

DispatchToolUnloggedFailure(p, log, tools, impl) ==
    The({
        [result |-> ToolCallResult(p.name,
                <<"Tool ">> \o p.name
                    \o (IF r.ok THEN <<" returned: ">>
                                ELSE <<" failed with error: ">>) \o r.value),
         log |-> IF r.ok THEN Append(log, SuccessCall(p.name, p.args, r.value))
                         ELSE log,
         parsed |-> TRUE, executed |-> <<<<p.name, p.args, r.outcome>>>>,
         invoked |-> IF r.invoked THEN 1 ELSE 0, emitted |-> p.signals]
        : r \in {execute_tool(tools, p.name, p.args, impl)} })

DispatchToolRestartingLog(p, log, tools, impl) ==
    The({
        [result |-> ToolCallResult(p.name,
                <<"Tool ">> \o p.name
                    \o (IF r.ok THEN <<" returned: ">>
                                ELSE <<" failed with error: ">>) \o r.value),
         log |-> << IF r.ok THEN SuccessCall(p.name, p.args, r.value)
                            ELSE FailedCall(p.name, p.args, r.value) >>,
         parsed |-> TRUE, executed |-> <<<<p.name, p.args, r.outcome>>>>,
         invoked |-> IF r.invoked THEN 1 ELSE 0, emitted |-> p.signals]
        : r \in {execute_tool(tools, p.name, p.args, impl)} })

DispatchToolCached(p, log, tools, impl) ==
    The({
        [result |-> ToolCallResult(p.name,
                <<"Tool ">> \o p.name
                    \o (IF r.ok THEN <<" returned: ">>
                                ELSE <<" failed with error: ">>) \o r.value),
         log |-> Append(log, IF r.ok THEN SuccessCall(p.name, p.args, r.value)
                                     ELSE FailedCall(p.name, p.args, r.value)),
         parsed |-> TRUE,
         executed |-> IF \E n \in 1..Len(log) :
                            log[n].tool = p.name /\ log[n].arguments = p.args
                      THEN <<>> ELSE <<<<p.name, p.args, r.outcome>>>>,
         invoked |-> IF r.invoked THEN 1 ELSE 0, emitted |-> p.signals]
        : r \in {execute_tool(tools, p.name, p.args, impl)} })

\* The outcome of one _execute_action call is the dictionary it returns, the
\* tool_calls_log after it, and what it did to its collaborators (parser
\* consulted, registry calls made, drift signals emitted).
\* engine.py:354-393  dispatch of the parsed call p
DispatchTool(p, log, tools, impl) ==
    The({
        IF r.ok
        THEN [result |-> ToolCallResult(p.name,
                    <<"Tool ">> \o p.name \o <<" returned: ">> \o r.value),
              log |-> Append(log, SuccessCall(p.name, p.args, r.value)),
              parsed |-> TRUE, executed |-> <<<<p.name, p.args, r.outcome>>>>,
              invoked |-> 1, emitted |-> p.signals]
        ELSE [result |-> ToolCallResult(p.name,
                    <<"Tool ">> \o p.name \o <<" failed with error: ">> \o r.value),
              log |-> Append(log, FailedCall(p.name, p.args, r.value)),
              parsed |-> TRUE, executed |-> <<<<p.name, p.args, r.outcome>>>>,
              invoked |-> IF r.invoked THEN 1 ELSE 0, emitted |-> p.signals]
        : r \in {execute_tool(tools, p.name, p.args, impl)} })

_execute_action(thought, schema, log, tools, impl) ==
    IF _should_answer(thought)
    THEN [result |-> AnswerResult(_extract_answer(thought)), log |-> log,
          parsed |-> FALSE, executed |-> <<>>, invoked |-> 0, emitted |-> <<>>]
    ELSE The({
            IF DispatchesTool(p)
            THEN DispatchTool(p, log, tools, impl)
            ELSE [result |-> NoToolCallResult(thought), log |-> log,
                  parsed |-> TRUE, executed |-> <<>>, invoked |-> 0,
                  emitted |-> p.signals]
            : p \in {parse_output(thought, SchemaNames(schema))} })

\* ------------------------------ engine.py: react_reasoning_loop as a whole
\* One run of the loop on its own, as a function of what the generator and
\* the tools give it: inputs[k] is the thought of iteration k (None when the
\* generator raises) and what the tool implementation does if invoked.
LoopOutcome(response, log, trace, steps) ==
    [raised |-> "",
     result |-> [response |-> response, tool_calls |-> log,
                 reasoning_trace |-> trace, steps_taken |-> steps]]

LoopRaised(exception) ==
    [raised |-> exception,
     result |-> [response |-> None, tool_calls |-> <<>>,
                 reasoning_trace |-> <<>>, steps_taken |-> -1]]

RECURSIVE LoopIteration(_, _, _, _, _, _, _, _)
LoopIteration(k, context, trace, log, inputs, limit, schema, tools) ==
    IF k >= limit
    THEN \* engine.py:284-293 after the last pass, never completed
         IF k = 0 THEN LoopRaised("UnboundLocalError")
         ELSE LoopOutcome(_generate_fallback_response(context), log, trace, k)
    ELSE IF inputs[k + 1].thought = None
    THEN LoopRaised("GeneratorFailure")
    ELSE The({ The({
        IF a.result.action = "answer"
        THEN LoopOutcome(a.result.response, a.log,
                Append(thought_trace,
                       [step |-> k + 1, type |-> "final_answer",
                        content |-> a.result.response, context |-> None]),
                k + 1)
        ELSE The({
            IF a.result.should_continue = FALSE
            THEN LoopOutcome(_generate_fallback_response(next[1]), a.log,
                             next[2], k + 1)
            ELSE LoopIteration(k + 1, next[1], next[2], a.log, inputs, limit,
                               schema, tools)
            : next \in {<<_update_context(context, inputs[k + 1].thought,
                                          a.result.observation),
                          Append(thought_trace,
                                 [step |-> k + 1, type |-> "observe",
                                  content |-> a.result.observation,
                                  context |-> None])>>} })
        : a \in {_execute_action(inputs[k + 1].thought, schema, log, tools,
                                 inputs[k + 1].impl)} })
        : thought_trace \in {Append(trace,
                [step |-> k + 1, type |-> "think",
                 content |-> inputs[k + 1].thought,
                 context |-> ContextSnapshot(context)])} })

\* engine.py:210-293
react_reasoning_loop(initial_query, inputs, limit, schema, tools) ==
    LoopIteration(0, initial_query, <<>>, <<>>, inputs, limit, schema, tools)

\* ------------------------------ engine.py: collect_training_data
\* what training_collector.collect_inference can do with an example: accept
\* it (True), reject it (False), or raise
CollectorOutcomes == {"accepted", "rejected", "raised"}

\* collector.py:36-85 seen from the caller
collect_inference(examples, example, outcome) ==
    [raised |-> outcome = "raised",
     examples |-> IF outcome = "accepted" THEN Append(examples, example)
                  ELSE examples]

collect_training_data_reraising(initial_query, loop_result, examples, outcome) ==
    The({ [raised |-> IF c.raised THEN "CollectorFailure" ELSE "",
           logged |-> <<>>, examples |-> c.examples,
           react_result |-> loop_result]
          : c \in {collect_inference(examples,
                    [instruction |-> initial_query,
                     reasoning_trace |-> loop_result.reasoning_trace,
                     tool_calls |-> loop_result.tool_calls,
                     output |-> loop_result.response,
                     steps_taken |-> loop_result.steps_taken], outcome)} })

\* engine.py:295-315  what the call leaves behind: the exception that leaves
\* it ("" if none), what it logged, the collector's examples and the
\* react_result dictionary it was handed
collect_training_data(initial_query, loop_result, examples, outcome) ==
    The({ [raised |-> "",
           logged |-> IF c.raised
                      THEN <<"Failed to collect training data: ">> ELSE <<>>,
           examples |-> c.examples, react_result |-> loop_result]
          : c \in {collect_inference(examples,
                    [instruction |-> initial_query,
                     reasoning_trace |-> loop_result.reasoning_trace,
                     tool_calls |-> loop_result.tool_calls,
                     output |-> loop_result.response,
                     steps_taken |-> loop_result.steps_taken], outcome)} })

\* ------------------------------------------------------------------- state
VARIABLES
    max_steps,          \* TracingEngine.max_steps
    registry_tools,     \* ToolRegistry._tools, names in registration order
    tools_schema,       \* argument of react_reasoning_loop
    pc,                 \* position in react_reasoning_loop
    step,               \* loop variable; Unassigned before the first pass
    current_context,
    reasoning_trace,
    tool_calls_log,
    final_response,
    completed,
    thought,
    action_result,
    result,             \* the returned dictionary, NoResult until return
    raised,             \* exception leaving the loop, "" if none
    gen_calls,          \* number of gemma_service.generate calls
    parse_calls,        \* number of gemma_service.parse_output calls
    gen_failures,       \* number of generate calls that raised
    exec_calls,         \* registry.execute_tool calls: <<name, args, outcome>>
    impl_calls,         \* number of tool implementations invoked
    signals,            \* record_reasoning_failure kinds, in emission order
    pr_response,        \* AgentResponse of the last process_request, or NoResponse
    pr_raised,          \* exception leaving the last process_request, "" if none
    pr_gen_calls,       \* generate calls made by process_request
    pr_exec_calls,      \* execute_tool calls made by process_request
    pr_signals,         \* drift signals emitted during process_request
    call_parts,         \* the pieces a raw generator text is made of
    raw_text,           \* argument of parse_output
    parse_result,       \* what parse_output returned and signalled, or NotParsed
    repair_result,      \* what _repair_json returned, or NotRepaired
    parse_raised,       \* exception leaving the last parse_output, "" if none
    registry_objects,   \* ToolRegistry._tools, the tool object under each name
    registered,         \* the tools handed to register so far, in call order
    registry_reply,     \* the latest registry call and what it gave back
    sessions,           \* the local variables of each concurrent loop session
    session_inputs,     \* per session: what the generator and the tools gave it
    react_result,       \* argument of collect_training_data
    collected,          \* the examples the training collector has accepted
    collect_reply,      \* the latest collect_training_data call and how it ended
    settings_key,       \* settings.LLM_API_KEY of the running server
    generator_text,     \* what gemma_service.generate is set up to give back
    http_reply,         \* the latest HTTP request and the response it got
    active_requests,    \* the agent_active_requests gauge
    connections         \* the ASGI calls handed to MetricsMiddleware

vars ==
    <<max_steps, registry_tools, tools_schema, pc, step, current_context,
      reasoning_trace, tool_calls_log, final_response, completed, thought,
      action_result, result, raised, gen_calls, gen_failures, parse_calls,
      exec_calls, impl_calls, signals, pr_response, pr_raised, pr_gen_calls,
      pr_exec_calls, pr_signals, call_parts, raw_text, parse_result,
      repair_result, parse_raised, registry_objects, registered, registry_reply,
      sessions, session_inputs, react_result, collected, collect_reply,
      settings_key, generator_text, http_reply, active_requests,
      connections>>

loop_vars ==
    <<max_steps, tools_schema, pc, step, current_context, reasoning_trace,
      tool_calls_log, final_response, completed, thought, action_result,
      result, raised, gen_calls, gen_failures, parse_calls, exec_calls,
      impl_calls, signals>>

request_vars ==
    <<pr_response, pr_raised, pr_gen_calls, pr_exec_calls, pr_signals>>

parser_vars ==
    <<call_parts, raw_text, parse_result, repair_result, parse_raised>>

registry_vars == <<registry_objects, registered, registry_reply>>

\* what the actions of the loop, the requests and the parser leave alone
concurrent_vars == <<sessions, session_inputs>>

collector_vars == <<react_result, collected, collect_reply>>

api_vars == <<settings_key, generator_text, http_reply>>

metrics_vars == <<active_requests, connections>>

service_vars ==
    <<registry_vars, concurrent_vars, collector_vars, api_vars, metrics_vars>>

Unassigned == -1

NoResult ==
    [response |-> None, tool_calls |-> <<>>, reasoning_trace |-> <<>>,
     steps_taken |-> Unassigned]

NoAction == AnswerResult(None)

NoResponse == [response |-> None, tool_calls |-> <<>>]

NotParsed == NoCall(<<"not parsed">>)

NoParts == [sentinel |-> FALSE, name |-> None, braces |-> FALSE, members |-> <<>>]

NotRepaired == None

\* a session of the loop and the requests, before anything ran
SessionInit ==
    /\ max_steps \in 0..MaxSteps
    /\ registry_tools = <<GET_CLUSTER_STATUS>>
    /\ tools_schema \in Schemas
    /\ pc = "for"
    /\ step = Unassigned
    /\ current_context \in Queries
    /\ reasoning_trace = <<>>
    /\ tool_calls_log = <<>>
    /\ final_response = None
    /\ completed = FALSE
    /\ thought = None
    /\ action_result = NoAction
    /\ result = NoResult
    /\ raised = ""
    /\ gen_calls = 0
    /\ gen_failures = 0
    /\ parse_calls = 0
    /\ exec_calls = <<>>
    /\ impl_calls = 0
    /\ signals = <<>>
    /\ pr_response = NoResponse
    /\ pr_raised = ""
    /\ pr_gen_calls = 0
    /\ pr_exec_calls = <<>>
    /\ pr_signals = <<>>

\* parse_output and _repair_json have not been called
ParserIdle ==
    /\ call_parts = NoParts
    /\ raw_text = None
    /\ parse_result = NotParsed
    /\ repair_result = NotRepaired
    /\ parse_raised = ""

NoReply ==
    [call |-> 0, op |-> "none", name |-> None, arguments |-> <<>>,
     given |-> [ok |-> TRUE, value |-> <<>>], ok |-> TRUE, outcome |-> "none",
     value |-> <<>>, tool |-> NoTool]

\* registry.py:11-17  the registry after construction
RegistryInit ==
    /\ registry_objects = [n \in {GET_CLUSTER_STATUS} |-> ClusterStatusTool]
    /\ registered = <<ClusterStatusTool>>
    /\ registry_reply = NoReply

SessionIds == {1, 2}

\* the query each concurrent session is started with
SessionQuery(s) ==
    IF s = 1 THEN <<"is", SP, "prod", SP, "healthy">>
    ELSE <<"is", SP, "dev", SP, "healthy">>

\* engine.py:227-231  the local variables at the start of a loop session
StartLocals(initial_query) ==
    [pc |-> "for", step |-> Unassigned, current_context |-> initial_query,
     reasoning_trace |-> <<>>, tool_calls_log |-> <<>>,
     final_response |-> None, completed |-> FALSE, thought |-> None,
     action_result |-> NoAction, result |-> NoResult, raised |-> ""]

ConcurrentInit ==
    /\ sessions = [s \in SessionIds |-> StartLocals(SessionQuery(s))]
    /\ session_inputs = [s \in SessionIds |-> <<>>]

NoCollectReply == [call |-> 0, outcome |-> "none", raised |-> "", logged |-> <<>>]

\* collect_training_data has not been called
CollectorIdle ==
    /\ react_result = NoResult
    /\ collected = <<>>
    /\ collect_reply = NoCollectReply

NoHttpReply ==
    [call |-> 0, endpoint |-> "none", api_key |-> None, status |-> 0,
     detail |-> <<>>]

\* no HTTP request was made; the generator is not set up for one
ApiIdle ==
    /\ settings_key = <<>>
    /\ generator_text = None
    /\ http_reply = NoHttpReply

\* the connections the middleware can be called for
MaxConnections == 3

NotCalled == [pc |-> "idle", type |-> "none", path |-> "none", outcome |-> "none"]

\* metrics.py:46-50  the gauge as constructed; the middleware was not called
MetricsIdle ==
    /\ active_requests = 0
    /\ connections = [c \in 1..MaxConnections |-> NotCalled]

Init ==
    /\ SessionInit
    /\ ParserIdle
    /\ RegistryInit
    /\ ConcurrentInit
    /\ CollectorIdle
    /\ ApiIdle
    /\ MetricsIdle

HasNextStepOffByOne(s, limit) == s + 1 <= limit

\* for step in range(self.max_steps): is there another pass after `s`
HasNextStep(s, limit) == s + 1 < limit

\* engine.py:233  the loop header
ForNext ==
    /\ pc = "for"
    /\ IF HasNextStep(step, max_steps)
       THEN step' = step + 1 /\ pc' = "think"
       ELSE step' = step /\ pc' = "exit"
    /\ UNCHANGED <<max_steps, registry_tools, tools_schema, current_context,
                   reasoning_trace, tool_calls_log, final_response, completed,
                   thought, action_result, result, raised, gen_calls,
                   gen_failures, parse_calls, exec_calls, impl_calls, signals>>
    /\ UNCHANGED request_vars
    /\ UNCHANGED parser_vars
    /\ UNCHANGED service_vars

\* where a generator exception leaves control: nothing in the loop catches it
\* (engine.py:243, 331)
GeneratorFailureSwallowed == "exit"

GeneratorFailurePc == "raised"

StepNumberZeroBased(s) == s

\* engine.py:245,264,275  "step": step + 1 in every trace entry
StepNumber(s) == s + 1

\* engine.py:241-249  THINK: one generator call, which returns text or raises
Think ==
    /\ pc = "think"
    /\ gen_calls' = gen_calls + 1
    /\ \/ \E t \in Thoughts :
            /\ thought' = t
            /\ reasoning_trace' = Append(reasoning_trace,
                    [step |-> StepNumber(step), type |-> "think", content |-> t,
                     context |-> ContextSnapshot(current_context)])
            /\ pc' = "act"
            /\ UNCHANGED <<raised, gen_failures>>
       \/ /\ gen_failures' = gen_failures + 1
          /\ pc' = GeneratorFailurePc
          /\ raised' = IF pc' = "raised" THEN "GeneratorFailure" ELSE raised
          /\ UNCHANGED <<thought, reasoning_trace>>
    /\ UNCHANGED <<max_steps, registry_tools, tools_schema, step,
                   current_context, tool_calls_log, final_response, completed,
                   action_result, result, parse_calls, exec_calls, impl_calls,
                   signals>>
    /\ UNCHANGED request_vars
    /\ UNCHANGED parser_vars
    /\ UNCHANGED service_vars

\* engine.py:251-258  ACT: the whole of _execute_action
Act ==
    /\ pc = "act"
    /\ \E impl \in ImplOutcomes :
        \E a \in {_execute_action(thought, tools_schema, tool_calls_log,
                                  registry_tools, impl)} :
            /\ action_result' = a.result
            /\ tool_calls_log' = a.log
            /\ parse_calls' = parse_calls + (IF a.parsed THEN 1 ELSE 0)
            /\ exec_calls' = exec_calls \o a.executed
            /\ impl_calls' = impl_calls + a.invoked
            /\ signals' = signals \o a.emitted
    /\ pc' = "branch"
    /\ UNCHANGED <<max_steps, registry_tools, tools_schema, step,
                   current_context, reasoning_trace, final_response, completed,
                   thought, result, raised, gen_calls, gen_failures>>
    /\ UNCHANGED request_vars
    /\ UNCHANGED parser_vars
    /\ UNCHANGED service_vars

\* engine.py:260-282  answer: record it and break; otherwise OBSERVE
Branch ==
    /\ pc = "branch"
    /\ IF action_result.action = "answer"
       THEN /\ final_response' = action_result.response
            /\ completed' = TRUE
            /\ reasoning_trace' = Append(reasoning_trace,
                    [step |-> StepNumber(step), type |-> "final_answer",
                     content |-> action_result.response, context |-> None])
            /\ pc' = "exit"
            /\ UNCHANGED current_context
       ELSE /\ current_context' = _update_context(current_context, thought,
                                                  action_result.observation)
            /\ reasoning_trace' = Append(reasoning_trace,
                    [step |-> StepNumber(step), type |-> "observe",
                     content |-> action_result.observation, context |-> None])
            /\ pc' = IF action_result.should_continue = FALSE
                     THEN "exit" ELSE "for"
            /\ UNCHANGED <<final_response, completed>>
    /\ UNCHANGED <<max_steps, registry_tools, tools_schema, step,
                   tool_calls_log, thought, action_result, result, raised,
                   gen_calls, gen_failures, parse_calls, exec_calls,
                   impl_calls, signals>>
    /\ UNCHANGED request_vars
    /\ UNCHANGED parser_vars
    /\ UNCHANGED service_vars

NeedsFallbackIgnoringCompleted(done, response) == ~Truthy(response)

\* if not completed and not final_response
NeedsFallback(done, response) == ~done /\ ~Truthy(response)

StepsTakenZeroBased(s) == s

\* engine.py:292  "steps_taken": step + 1
StepsTaken(s) == s + 1

StepAlwaysBound(s) == TRUE

\* engine.py:292  `step` is bound only once the for statement assigned it
StepIsBound(s) == s # Unassigned

\* engine.py:284-293  fallback when not completed, then build the result;
\* reading `step` before any pass assigned it raises UnboundLocalError
Exit ==
    /\ pc = "exit"
    /\ \E response \in {IF NeedsFallback(completed, final_response)
                         THEN _generate_fallback_response(current_context)
                         ELSE final_response} :
           /\ final_response' = response
           /\ IF ~StepIsBound(step)
              THEN /\ raised' = "UnboundLocalError"
                   /\ pc' = "raised"
                   /\ result' = result
              ELSE /\ result' = [response |-> response,
                                 tool_calls |-> tool_calls_log,
                                 reasoning_trace |-> reasoning_trace,
                                 steps_taken |-> StepsTaken(step)]
                   /\ pc' = "returned"
                   /\ raised' = raised
    /\ UNCHANGED <<max_steps, registry_tools, tools_schema, step,
                   current_context, reasoning_trace, tool_calls_log, completed,
                   thought, action_result, gen_calls, gen_failures,
                   parse_calls, exec_calls, impl_calls, signals>>
    /\ UNCHANGED request_vars
    /\ UNCHANGED parser_vars
    /\ UNCHANGED service_vars

\* json.dumps of an argument mapping, as the response text shows it
RECURSIVE json_dumps_items(_)
json_dumps_items(args) ==
    IF args = <<>> THEN <<>>
    ELSE <<QUOTE>> \o Head(args)[1] \o <<QUOTE, ":", SP>>
            \o (IF Head(Head(args)[2]) = "str"
                THEN <<QUOTE>> \o Tail(Head(args)[2]) \o <<QUOTE>>
                ELSE Tail(Head(args)[2]))
            \o (IF Len(args) > 1 THEN <<",", SP>> ELSE <<>>)
            \o json_dumps_items(Tail(args))

json_dumps(args) == <<"{">> \o json_dumps_items(args) \o <<"}">>

RequestDispatchKeepingHistory(p, tools, impl) ==
    The({ The({
        [response |->
            IF r.ok
            THEN <<"Action", SP, "Taken", ":", SP>> \o p.name
                    \o <<"\n", "Arguments", ":", SP>> \o json_dumps(p.args)
                    \o <<"\n", "System", SP, "Output", ":", SP>> \o r.value
            ELSE <<"Error executing action ">> \o p.name \o <<": ">> \o r.value,
         tool_calls |->
            IF r.ok THEN <<SuccessCall(p.name, p.args, r.value)>>
                    ELSE <<FailedCall(p.name, p.args, r.value)>>,
         emitted |-> p.signals
            \o (IF Count(tool_call_history, tool_signature(p.name, p.args)) >= 3
                THEN <<"infinite_loop">> ELSE <<>>)]
        : r \in {execute_tool(tools, p.name, p.args, impl)} })
        : tool_call_history \in
            {[n \in 1..Len(pr_exec_calls) |->
                    tool_signature(pr_exec_calls[n][1], pr_exec_calls[n][2])]
                \o <<tool_signature(p.name, p.args)>>} })

\* agent.py:57-101  the acting half of process_request for a parsed call
RequestDispatch(p, tools, impl) ==
    The({ The({
        [response |->
            IF r.ok
            THEN <<"Action", SP, "Taken", ":", SP>> \o p.name
                    \o <<"\n", "Arguments", ":", SP>> \o json_dumps(p.args)
                    \o <<"\n", "System", SP, "Output", ":", SP>> \o r.value
            ELSE <<"Error executing action ">> \o p.name \o <<": ">> \o r.value,
         tool_calls |->
            IF r.ok THEN <<SuccessCall(p.name, p.args, r.value)>>
                    ELSE <<FailedCall(p.name, p.args, r.value)>>,
         emitted |-> p.signals
            \o (IF Count(tool_call_history, tool_signature(p.name, p.args)) >= 3
                THEN <<"infinite_loop">> ELSE <<>>)]
        : r \in {execute_tool(tools, p.name, p.args, impl)} })
        : tool_call_history \in {<<tool_signature(p.name, p.args)>>} })

\* agent.py:28-122  AgentService.process_request from the schema list on,
\* one single-shot request; schema is the list of line 27, generated_text is what gemma_service.generate gives back (None when it
\* raises), impl is what the tool implementation does if it is invoked
process_request_with(schema, generated_text, impl) ==
    \E names \in {available_tools(schema)} :
        IF ~names.ok
        THEN /\ pr_raised' = "KeyError"
             /\ pr_response' = NoResponse
             /\ UNCHANGED <<pr_gen_calls, pr_exec_calls, pr_signals>>
        ELSE /\ pr_gen_calls' = pr_gen_calls + 1
             /\ IF generated_text = None
                THEN /\ pr_raised' = "GeneratorFailure"
                     /\ pr_response' = NoResponse
                     /\ UNCHANGED <<pr_exec_calls, pr_signals>>
                ELSE \E p \in {parse_output(generated_text, names.names)} :
                     \E d \in {IF DispatchesTool(p)
                               THEN RequestDispatch(p, registry_tools, impl)
                               ELSE [response |-> generated_text,
                                     tool_calls |-> <<>>, emitted |-> p.signals]} :
                        /\ pr_raised' = ""
                        /\ IF DispatchesTool(p)
                           THEN /\ pr_response' = [response |-> d.response,
                                                   tool_calls |-> d.tool_calls]
                                /\ pr_exec_calls' =
                                        Append(pr_exec_calls, <<p.name, p.args>>)
                                /\ pr_signals' = pr_signals \o d.emitted
                           ELSE /\ pr_response' = [response |-> generated_text,
                                                   tool_calls |-> <<>>]
                                /\ pr_exec_calls' = pr_exec_calls
                                /\ pr_signals' = pr_signals \o p.signals

\* agent.py:27  tools_schema = registry.get_all_schemas()
process_request(generated_text, impl) ==
    process_request_with(get_all_schemas(registry_tools), generated_text, impl)

ProcessRequest ==
    /\ \E generated_text \in Thoughts \cup {None}, impl \in ImplOutcomes :
            process_request(generated_text, impl)
    /\ UNCHANGED loop_vars
    /\ UNCHANGED registry_tools
    /\ UNCHANGED parser_vars
    /\ UNCHANGED service_vars

LoopNext == ForNext \/ Think \/ Act \/ Branch \/ Exit

Next == ForNext \/ Think \/ Act \/ Branch \/ Exit \/ ProcessRequest

Spec == Init /\ [][Next]_vars

\* one loop session on its own; the loop is sequential code, it keeps running
\* until it returns or raises
FairSpec == Init /\ [][LoopNext]_vars /\ WF_vars(LoopNext)

\* ---------------------------------------------------------------- claims
\* ------------------------------------------------ the parser on its own
\* Raw generator texts are put together from pieces: the sentinels, the
\* "call:" label, a tool name and an argument object of up to MaxMembers
\* members, each member a key (quoted or bare), a colon with or without
\* whitespace around it, and a value (string, bare token, number, literal).
MaxMembers == 2

ToolNames ==
    { GET_CLUSTER_STATUS, <<"get_status">>, <<SP, "get_status", SP>>, <<>> }

MemberValues ==
    { [kind |-> "str", text |-> <<"prod">>],
      [kind |-> "str", text |-> <<"call", ":", SP, "me">>],
      [kind |-> "str", text |-> <<"see", SP, "id", ":", SP, "5">>],
      [kind |-> "bare", text |-> <<"prod">>],
      [kind |-> "num", text |-> <<"42">>],
      [kind |-> "lit", text |-> <<"true">>] }

FirstMembers ==
    [key : {"id"}, key_quoted : BOOLEAN,
     sep : { <<":", SP>>, <<":">>, <<SP, ":", SP>> }, value : MemberValues]

MoreMembers ==
    [key : {"env"}, key_quoted : BOOLEAN, sep : { <<":", SP>> },
     value : { [kind |-> "str", text |-> <<"dev">>],
               [kind |-> "bare", text |-> <<"dev">>],
               [kind |-> "num", text |-> <<"0">>] }]

MemberLists ==
    {<<>>} \cup UNION { { <<first>> \o more :
                            first \in FirstMembers,
                            more \in [1..(n - 1) -> MoreMembers] }
                        : n \in 1..MaxMembers }

CallParts ==
    [sentinel : BOOLEAN, name : ToolNames, braces : {TRUE},
     members : MemberLists]
    \cup [sentinel : BOOLEAN, name : ToolNames, braces : {FALSE},
          members : {<<>>}]

RenderMember(m) ==
    (IF m.key_quoted THEN <<QUOTE, m.key, QUOTE>> ELSE <<m.key>>)
        \o m.sep
        \o (IF m.value.kind = "str"
            THEN <<QUOTE>> \o m.value.text \o <<QUOTE>> ELSE m.value.text)

RECURSIVE RenderMembers(_, _)
RenderMembers(members, n) ==
    IF n > Len(members) THEN <<>>
    ELSE (IF n > 1 THEN <<",", SP>> ELSE <<>>)
            \o RenderMember(members[n]) \o RenderMembers(members, n + 1)

RenderObject(members) == <<"{">> \o RenderMembers(members, 1) \o <<"}">>

RenderCall(parts) ==
    (IF parts.sentinel THEN <<START>> ELSE <<>>)
        \o <<"call", ":">> \o parts.name
        \o (IF parts.braces THEN RenderObject(parts.members) ELSE <<>>)
        \o (IF parts.sentinel THEN <<END>> ELSE <<>>)

ParserInit ==
    /\ SessionInit
    /\ max_steps = 0
    /\ call_parts \in CallParts
    /\ raw_text = RenderCall(call_parts)
    /\ parse_result = NotParsed
    /\ repair_result = NotRepaired
    /\ parse_raised = ""
    /\ RegistryInit
    /\ ConcurrentInit
    /\ CollectorIdle
    /\ ApiIdle
    /\ MetricsIdle

\* inference.py:63-119  one call of parse_output on the raw text
ParseOutput ==
    /\ raw_text # None
    /\ parse_result = NotParsed
    /\ parse_result' = parse_output(raw_text, SchemaNames(tools_schema))
    /\ UNCHANGED <<call_parts, raw_text, repair_result, parse_raised>>
    /\ UNCHANGED <<loop_vars, registry_tools, request_vars>>
    /\ UNCHANGED service_vars

\* inference.py:43-61  one call of _repair_json on the argument text
RepairJson ==
    /\ raw_text # None
    /\ call_parts.braces
    /\ repair_result = NotRepaired
    /\ repair_result' = _repair_json(RenderObject(call_parts.members))
    /\ UNCHANGED <<call_parts, raw_text, parse_result, parse_raised>>
    /\ UNCHANGED <<loop_vars, registry_tools, request_vars>>
    /\ UNCHANGED service_vars

\* inference.py:63-119  one call of parse_output(raw_text): available_tools
\* is left at its default and read from the registry's schemas (line 67)
ParseOutputDefault ==
    /\ raw_text # None
    /\ parse_result = NotParsed
    /\ parse_raised = ""
    /\ \E names \in {available_tools(get_all_schemas(registry_tools))} :
        IF ~names.ok
        THEN /\ parse_raised' = "KeyError"
             /\ UNCHANGED parse_result
        ELSE /\ parse_result' = parse_output(raw_text, names.names)
             /\ UNCHANGED parse_raised
    /\ UNCHANGED <<call_parts, raw_text, repair_result>>
    /\ UNCHANGED <<loop_vars, registry_tools, request_vars>>
    /\ UNCHANGED service_vars

ParserNext == ParseOutput \/ RepairJson \/ ParseOutputDefault

ParserSpec == ParserInit /\ [][ParserNext]_vars

\* ------------------------------------------------ the registry on its own
\* Any caller may register tools, look them up, list them and execute them,
\* in any order; MaxRegistryCalls bounds the number of registry calls.
MaxRegistryCalls == 3

Tools ==
    [name : {GET_CLUSTER_STATUS, SEARCH_KNOWLEDGE_BASE},
     instance : {"first", "second"}]

ExecuteNames == {GET_CLUSTER_STATUS, SEARCH_KNOWLEDGE_BASE, <<"restart_pod">>}

ExecuteArguments == { <<>>, << <<<<"cluster_id">>, <<"str", "prod">>>> >> }

\* what a registry call leaves alone besides the registry itself
registry_frame ==
    <<max_steps, tools_schema, pc, step, current_context, reasoning_trace,
      tool_calls_log, final_response, completed, thought, action_result,
      result, raised, gen_calls, gen_failures, parse_calls, exec_calls,
      signals, request_vars, parser_vars>>

RegistrySpecInit ==
    /\ SessionInit
    /\ max_steps = 0
    /\ ParserIdle
    /\ RegistryInit
    /\ ConcurrentInit
    /\ CollectorIdle
    /\ ApiIdle
    /\ MetricsIdle

\* registry.py:19-20
Register ==
    /\ registry_reply.call < MaxRegistryCalls
    /\ \E tool \in Tools :
        \E r \in {register(registry_tools, registry_objects, tool)} :
            /\ registry_tools' = r.keys
            /\ registry_objects' = r.objects
            /\ registered' = Append(registered, tool)
            /\ registry_reply' =
                    [NoReply EXCEPT !.call = registry_reply.call + 1,
                                    !.op = "register", !.name = tool.name,
                                    !.tool = tool]
    /\ UNCHANGED <<impl_calls, registry_frame, concurrent_vars, collector_vars, api_vars,
                   metrics_vars>>

\* registry.py:22-23
GetTool ==
    /\ registry_reply.call < MaxRegistryCalls
    /\ \E name \in ExecuteNames :
        registry_reply' =
            [NoReply EXCEPT !.call = registry_reply.call + 1, !.op = "get_tool",
                            !.name = name,
                            !.tool = get_tool(registry_objects, name)]
    /\ UNCHANGED <<registry_tools, registry_objects, registered, impl_calls,
                   registry_frame, concurrent_vars, collector_vars, api_vars,
                   metrics_vars>>

\* registry.py:25-27
ListTools ==
    /\ registry_reply.call < MaxRegistryCalls
    /\ registry_reply' =
            [NoReply EXCEPT !.call = registry_reply.call + 1,
                            !.op = "list_tools",
                            !.value = list_tools(registry_tools)]
    /\ UNCHANGED <<registry_tools, registry_objects, registered, impl_calls,
                   registry_frame, concurrent_vars, collector_vars, api_vars,
                   metrics_vars>>

\* registry.py:29-31
GetAllSchemas ==
    /\ registry_reply.call < MaxRegistryCalls
    /\ registry_reply' =
            [NoReply EXCEPT !.call = registry_reply.call + 1,
                            !.op = "get_all_schemas",
                            !.value = get_all_schemas(registry_tools)]
    /\ UNCHANGED <<registry_tools, registry_objects, registered, impl_calls,
                   registry_frame, concurrent_vars, collector_vars, api_vars,
                   metrics_vars>>

\* registry.py:33-41  one call of execute_tool; `given` is what the tool's
\* implementation does when it is invoked
ExecuteTool ==
    /\ registry_reply.call < MaxRegistryCalls
    /\ \E name \in ExecuteNames, arguments \in ExecuteArguments,
          impl \in ImplOutcomes :
        \E r \in {execute_tool(registry_tools, name, arguments, impl)} :
            /\ registry_reply' =
                    [call |-> registry_reply.call + 1, op |-> "execute_tool",
                     name |-> name, arguments |-> arguments, given |-> impl,
                     ok |-> r.ok, outcome |-> r.outcome, value |-> r.value,
                     tool |-> IF r.invoked THEN get_tool(registry_objects, name)
                              ELSE NoTool]
            /\ impl_calls' = impl_calls + InvocationsOf(r)
    /\ UNCHANGED <<registry_tools, registry_objects, registered,
                   registry_frame, concurrent_vars, collector_vars, api_vars,
                   metrics_vars>>

RegistryNext == Register \/ GetTool \/ ListTools \/ GetAllSchemas \/ ExecuteTool

RegistrySpec == RegistrySpecInit /\ [][RegistryNext]_vars

ThinkSteps(trace) == { n \in 1..Len(trace) : trace[n].type = "think" }

\* C1: for max_steps >= 1 the loop makes at most max_steps THINK passes
\* (one generator call each) and, whatever the generator texts and the tool
\* outcomes are, it ends by returning a result.
C1_Terminates ==
    /\ [](max_steps >= 1 =>
            /\ gen_calls <= max_steps
            /\ Cardinality(ThinkSteps(reasoning_trace)) <= max_steps)
    /\ <>(max_steps >= 1 => (pc = "returned" \/ gen_failures > 0))
    /\ [](max_steps >= 1 /\ pc = "returned" => result # NoResult)

C1_Witness ==
    /\ pc = "returned"
    /\ max_steps >= 2
    /\ gen_calls = max_steps
    /\ \E n \in 1..Len(tool_calls_log) : tool_calls_log[n].status = "failed"
    /\ \E n \in 1..Len(tool_calls_log) : tool_calls_log[n].status = "success"

\* C2: in a returned result steps_taken is the number of THINK passes made,
\* which is the number of generator calls, and lies in 1..max_steps.
C2_StepsTaken ==
    pc = "returned" =>
        /\ result.steps_taken = Cardinality(ThinkSteps(result.reasoning_trace))
        /\ result.steps_taken = gen_calls
        /\ 1 <= result.steps_taken
        /\ result.steps_taken <= max_steps

C2_Witness ==
    /\ pc = "returned"
    /\ result.steps_taken = 2
    /\ max_steps = 3

\* ---------------------------------------------- vocabulary of the claims
\* the thoughts the generator has returned so far, in order
ThoughtsOf(trace) ==
    [k \in 1..Cardinality(ThinkSteps(trace)) |->
        trace[CHOOSE n \in ThinkSteps(trace) :
                Cardinality({ m \in ThinkSteps(trace) : m <= n }) = k].content]

\* the thought holds one of the six indicator phrases, in any letter case
HasIndicator(t) ==
    \E indicator \in answer_indicators :
        \E n \in 1..Len(t) :
            /\ n + Len(indicator) - 1 <= Len(t)
            /\ \A k \in 1..Len(indicator) : LowerTok(t[n + k - 1]) = indicator[k]

\* the thought holds the function-call sentinel
HasSentinel(t) == \E n \in 1..Len(t) : t[n] = START

\* the parser returns no tool name for the thought
NoToolName(t) ==
    \E p \in {parse_output(t, SchemaNames(tools_schema))} :
        p.none \/ p.name = <<>>

IsFallbackMessage(response) ==
    /\ response # None
    /\ response # <<>>
    /\ response[1] = _generate_fallback_response(<<>>)[1]

LastStep(trace) == trace[Len(trace)]

\* C3 as stated: with max_steps = 2 and thoughts that hold neither an
\* indicator nor the sentinel, the loop takes 2 steps and returns the
\* fallback response built from the accumulated context.
C3_FallbackAfterTwoSteps ==
    (/\ pc = "returned"
     /\ max_steps = 2
     /\ \A k \in DOMAIN ThoughtsOf(reasoning_trace) :
            /\ ~HasIndicator(ThoughtsOf(reasoning_trace)[k])
            /\ ~HasSentinel(ThoughtsOf(reasoning_trace)[k]))
    => /\ result.steps_taken = 2
       /\ result.response = _generate_fallback_response(current_context)

\* C3 as the code has it: with max_steps = 2 and thoughts that hold neither
\* an indicator nor the sentinel, the loop ends in its first iteration; the
\* first thought is the response, steps_taken = 1, one generator call was
\* made, no tool was called and the response is not the fallback message.
C3_PlainThoughtEndsLoop ==
    (/\ pc = "returned"
     /\ max_steps = 2
     /\ \A k \in DOMAIN ThoughtsOf(reasoning_trace) :
            /\ ~HasIndicator(ThoughtsOf(reasoning_trace)[k])
            /\ ~HasSentinel(ThoughtsOf(reasoning_trace)[k]))
    => /\ result.steps_taken = 1
       /\ gen_calls = 1
       /\ result.response = ThoughtsOf(reasoning_trace)[1]
       /\ result.tool_calls = <<>>
       /\ ~IsFallbackMessage(result.response)

C3_Witness ==
    /\ pc = "returned"
    /\ max_steps = 2
    /\ ThoughtsOf(reasoning_trace) = <<T_plain>>

\* C4: once the thought of an iteration holds no indicator and the parser
\* returns no tool name for it, the iteration ends the loop: the action is
\* an answer whose response is the thought, no tool is executed in the
\* iteration, a final_answer step with the thought is appended, the loop
\* never thinks again and the returned response is the thought.
C4_NoToolIsFinal ==
    (/\ thought # None
     /\ ~HasIndicator(thought)
     /\ NoToolName(thought))
    => /\ pc \in {"act", "branch", "exit", "returned"}
       /\ gen_calls = step + 1
       /\ Len(exec_calls) = step
       /\ Len(tool_calls_log) = step
       /\ pc # "act" => action_result = AnswerResult(thought)
       /\ pc \in {"exit", "returned"} =>
            /\ completed
            /\ final_response = thought
            /\ LastStep(reasoning_trace) =
                    [step |-> step + 1, type |-> "final_answer",
                     content |-> thought, context |-> None]
       /\ pc = "returned" =>
            /\ result.response = thought
            /\ result.steps_taken = step + 1

C4_Witness ==
    /\ pc = "returned"
    /\ thought = T_call_empty
    /\ step = 1
    /\ Len(exec_calls) = 1

\* the context after the first n steps of the trace, rebuilt from the
\* thoughts and observations the trace records
RECURSIVE ContextAfter(_, _)
ContextAfter(trace, n) ==
    IF n = 0 THEN trace[1].context
    ELSE IF trace[n].type = "observe"
         THEN _update_context(ContextAfter(trace, n - 1), trace[n - 1].content,
                              trace[n].content)
    ELSE ContextAfter(trace, n - 1)

FinalReached(trace) == \E n \in 1..Len(trace) : trace[n].type = "final_answer"

\* C5: a returned response is the fallback message exactly when no iteration
\* recorded a final answer; then all max_steps iterations dispatched a tool
\* call, nothing was raised, and the message is the fixed text around the
\* context as it stands after the last observe step. When a final answer was
\* recorded the response is that answer and not the fallback message.
C5_FallbackIffNoFinal ==
    pc = "returned" =>
        /\ IsFallbackMessage(result.response)
                <=> ~FinalReached(result.reasoning_trace)
        /\ ~FinalReached(result.reasoning_trace) =>
            /\ raised = ""
            /\ Cardinality(ThinkSteps(result.reasoning_trace)) = max_steps
            /\ Len(result.tool_calls) = max_steps
            /\ LastStep(result.reasoning_trace).type = "observe"
            /\ result.response = _generate_fallback_response(
                    ContextAfter(result.reasoning_trace,
                                 Len(result.reasoning_trace)))
        /\ FinalReached(result.reasoning_trace) =>
            /\ LastStep(result.reasoning_trace).type = "final_answer"
            /\ result.response = LastStep(result.reasoning_trace).content
            /\ result.response \in {thought, _extract_answer(thought)}

C5_Witness ==
    /\ pc = "returned"
    /\ max_steps = 2
    /\ IsFallbackMessage(result.response)
    /\ Len(result.tool_calls) = 2

\* the text after the last "final answer:" marker, found in any letter case
AfterMarker(t) ==
    LET at == { n \in 1..Len(t) :
                    /\ n + Len(final_answer_marker) - 1 <= Len(t)
                    /\ \A k \in 1..Len(final_answer_marker) :
                            LowerTok(t[n + k - 1]) = final_answer_marker[k] }
        last == CHOOSE n \in at : \A m \in at : m <= n
    IN  IF at = {} THEN t
        ELSE Strip(SubSeq(t, last + Len(final_answer_marker), Len(t)))

\* C6: when the thought that ends the loop holds an indicator, the response
\* is the text after the "final answer:" marker, whatever the marker's letter
\* case, and the whole thought when there is no marker; "Final answer:
\* cluster healthy" at step 1 gives "cluster healthy" with steps_taken = 1.
C6_ResponseFollowsMarker ==
    (pc = "returned" /\ HasIndicator(thought)) =>
        /\ result.response = AfterMarker(thought)
        /\ (thought = T_final_cap /\ gen_calls = 1) =>
                /\ result.response = <<"cluster", SP, "healthy">>
                /\ result.steps_taken = 1

\* C7: once the thought of an iteration holds an indicator, the iteration
\* ends the loop with a final_answer step, and in that iteration the parser
\* is not consulted and no tool is executed: parser and registry have been
\* used once per earlier iteration and not in this one, also when the
\* thought carries a well-formed call segment.
C7_AnswerBeforeParsing ==
    (thought # None /\ HasIndicator(thought)) =>
        /\ pc \in {"act", "branch", "exit", "returned"}
        /\ parse_calls = step
        /\ Len(exec_calls) = step
        /\ impl_calls <= step
        /\ Len(tool_calls_log) = step
        /\ pc # "act" => action_result.action = "answer"
        /\ pc \in {"exit", "returned"} =>
            /\ completed
            /\ LastStep(reasoning_trace).type = "final_answer"
            /\ LastStep(reasoning_trace).step = step + 1

C7_Witness ==
    /\ pc = "returned"
    /\ thought = T_therefore_call
    /\ step = 1
    /\ parse_calls = 1

\* the message of the ToolExecutionError for a failed registry call
FailureMessage(call) ==
    IF call[3] = "not_found"
    THEN { <<"Tool '">> \o call[1] \o <<"' not found in registry.">> }
    ELSE { <<"Error executing '">> \o call[1] \o <<"': ">> \o e : e \in ToolErrors }

\* C8: when the registry call of the current iteration failed (unregistered
\* name, or the implementation raised), nothing is raised: one failed
\* ToolCall with the error message is logged, the observation names the tool
\* and the error, the observe step is appended, and the loop leaves for the
\* exit only when the step budget is used up.
C8_FailedToolContinues ==
    (/\ step >= 0
     /\ Len(exec_calls) = step + 1
     /\ exec_calls[step + 1][3] # "returned")
    => \E message \in FailureMessage(exec_calls[step + 1]) :
        /\ raised = ""
        /\ pc \in {"branch", "for", "exit", "returned"}
        /\ Len(tool_calls_log) = step + 1
        /\ tool_calls_log[step + 1] =
                [tool |-> exec_calls[step + 1][1],
                 arguments |-> exec_calls[step + 1][2],
                 result |-> None, error |-> message, status |-> "failed"]
        /\ action_result.action = "tool_call"
        /\ action_result.observation =
                <<"Tool ">> \o exec_calls[step + 1][1]
                    \o <<" failed with error: ">> \o message
        /\ pc # "branch" =>
                LastStep(reasoning_trace) =
                    [step |-> step + 1, type |-> "observe",
                     content |-> action_result.observation, context |-> None]
        /\ pc \in {"exit", "returned"} => step + 1 = max_steps
        /\ pc = "returned" => ~FinalReached(result.reasoning_trace)

C8_Witness ==
    /\ pc = "for"
    /\ step = 1
    /\ max_steps = 3
    /\ Len(exec_calls) = 2
    /\ exec_calls[1][3] = "not_found"
    /\ exec_calls[2][3] = "raised"

\* C9: once a generator call has failed, the exception has left the loop:
\* no result and no fallback response exists, the failing call was the last
\* generator call, and the iteration executed no tool; the same holds for a
\* generator failure inside process_request.
C9_GeneratorFailureIsFatal ==
    /\ gen_failures > 0 =>
        /\ pc = "raised"
        /\ raised = "GeneratorFailure"
        /\ result = NoResult
        /\ ~IsFallbackMessage(final_response)
        /\ gen_failures = 1
        /\ gen_calls = step + 1
        /\ Len(exec_calls) = step
    /\ pr_raised = "GeneratorFailure" =>
        /\ pr_response = NoResponse
        /\ pr_exec_calls = <<>>

C9_Witness ==
    /\ pc = "raised"
    /\ gen_failures = 1
    /\ step = 1
    /\ Len(exec_calls) = 1

\* C10: when the first three steps of a session dispatched the identical
\* tool call (same name, same arguments), exactly one infinite_loop signal
\* has been emitted by the end of step 3.
C10_InfiniteLoopSignal ==
    (/\ Len(exec_calls) >= 3
     /\ tool_signature(exec_calls[1][1], exec_calls[1][2])
            = tool_signature(exec_calls[2][1], exec_calls[2][2])
     /\ tool_signature(exec_calls[2][1], exec_calls[2][2])
            = tool_signature(exec_calls[3][1], exec_calls[3][2]))
    => Count(signals, "infinite_loop") = 1

\* the thoughts whose iteration has gone through ACT
ActedThoughts ==
    IF pc = "act"
    THEN SubSeq(ThoughtsOf(reasoning_trace), 1,
                Len(ThoughtsOf(reasoning_trace)) - 1)
    ELSE ThoughtsOf(reasoning_trace)

\* the thought reaches the parser and the parser returns a non-empty name
ParsesToTool(t) == ~HasIndicator(t) /\ ~NoToolName(t)

\* C11: every iteration whose thought the parser turns into a non-empty tool
\* name makes exactly one registry call, with the parsed name and arguments,
\* however often the same call was dispatched before: the registry calls
\* are, in order, the parsed calls of those iterations.
C11_NoSuppression ==
    \E acted \in {ActedThoughts} :
    \E parsed \in {[k \in 1..Len(acted) |->
                        parse_output(acted[k], SchemaNames(tools_schema))]} :
    \E dispatching \in {{ k \in 1..Len(acted) :
                            /\ ~HasIndicator(acted[k])
                            /\ ~parsed[k].none
                            /\ parsed[k].name # <<>> }} :
        /\ Len(exec_calls) = Cardinality(dispatching)
        /\ \A k \in 1..Len(exec_calls) :
            /\ k \in dispatching
            /\ exec_calls[k][1] = parsed[k].name
            /\ exec_calls[k][2] = parsed[k].args

C11_Witness ==
    /\ pc = "returned"
    /\ Len(exec_calls) = 3
    /\ ActedThoughts = <<T_call_prod, T_call_prod, T_call_prod>>
    /\ \A k \in 1..3 : exec_calls[k][3] = "returned"

\* the positions of the observe steps of a trace, in order
ObserveSteps(trace) == { n \in 1..Len(trace) : trace[n].type = "observe" }

\* C12: a tool-call thought in an iteration below the budget does not end
\* the loop: the tool call is logged, its observation ("Tool <name>
\* returned: <result>" on success) becomes an observe step and is folded
\* into the context the next THINK sees, and the loop is left without an
\* answer only when the budget is used up; so a returned session of budget
\* >= 2 whose first thought is a tool call has steps_taken >= 2.
C12_MultiStepContinuation ==
    /\ \A n \in ObserveSteps(reasoning_trace) :
        LET k == reasoning_trace[n].step
        IN  /\ n > 1
            /\ reasoning_trace[n - 1].type = "think"
            /\ reasoning_trace[n - 1].step = k
            /\ ParsesToTool(reasoning_trace[n - 1].content)
            /\ tool_calls_log[k].status = "success" =>
                    reasoning_trace[n].content =
                        <<"Tool ">> \o tool_calls_log[k].tool
                            \o <<" returned: ">> \o tool_calls_log[k].result
    /\ \A n \in ThinkSteps(reasoning_trace) :
        n > 1 =>
            /\ reasoning_trace[n - 1].type = "observe"
            /\ reasoning_trace[n].step = reasoning_trace[n - 1].step + 1
            /\ reasoning_trace[n].context =
                    ContextSnapshot(ContextAfter(reasoning_trace, n - 1))
    /\ reasoning_trace # <<>> =>
            current_context = ContextAfter(reasoning_trace, Len(reasoning_trace))
    /\ (pc \in {"exit", "returned"} /\ ~completed) => step + 1 = max_steps
    /\ (/\ pc = "returned"
        /\ max_steps >= 2
        /\ ParsesToTool(ThoughtsOf(reasoning_trace)[1]))
       => /\ result.steps_taken >= 2
          /\ Len(result.tool_calls) >= 1
          /\ ~ParsesToTool(ThoughtsOf(reasoning_trace)[2])
                => result.steps_taken = 2

C12_Witness ==
    /\ pc = "returned"
    /\ max_steps = 3
    /\ ThoughtsOf(reasoning_trace) = <<T_call_prod, T_final_lower>>
    /\ tool_calls_log[1].status = "success"
    /\ result.steps_taken = 2
    /\ result.response = <<"cluster", SP, "healthy">>

PairsOf(args) == { args[n] : n \in 1..Len(args) }

\* the mapping an argument object denotes: each key with the value of its
\* last member
Denoted(members) ==
    { <<<<members[n].key>>, <<members[n].value.kind>> \o members[n].value.text>>
        : n \in { k \in 1..Len(members) :
                    \A later \in (k + 1)..Len(members) :
                        members[later].key # members[k].key } }

\* the argument object is a JSON object literal as it stands
WellFormedJson(members) ==
    \A n \in 1..Len(members) :
        members[n].key_quoted /\ members[n].value.kind \in {"str", "num", "lit"}

\* C14: for every raw text made of start sentinel, "call:", tool name,
\* well-formed JSON object and end sentinel, parse_output returns the tool
\* name and exactly the mapping the object denotes, whatever its keys and
\* string values are.
C14_WellFormedCallExact ==
    (/\ parse_result # NotParsed
     /\ call_parts.sentinel
     /\ call_parts.braces
     /\ WellFormedJson(call_parts.members))
    => /\ ~parse_result.none
       /\ parse_result.name = Strip(call_parts.name)
       /\ PairsOf(parse_result.args) = Denoted(call_parts.members)

\* strict parsing of the object fails because of bare keys or bare values
HasBareToken(members) ==
    \E n \in 1..Len(members) :
        ~members[n].key_quoted \/ members[n].value.kind = "bare"

\* the mapping of the object with every scalar taken as a string
DenotedAsStrings(members) ==
    { <<<<members[n].key>>, <<"str">> \o members[n].value.text>>
        : n \in { k \in 1..Len(members) :
                    \A later \in (k + 1)..Len(members) :
                        members[later].key # members[k].key } }

\* what the mapping of a repaired object may hold for a member: bare tokens
\* as strings, the other values as they are or as strings
RepairedPairFits(members, pair) ==
    \E n \in 1..Len(members) :
        /\ \A later \in (n + 1)..Len(members) : members[later].key # members[n].key
        /\ pair[1] = <<members[n].key>>
        /\ \/ pair[2] = <<"str">> \o members[n].value.text
           \/ /\ members[n].value.kind # "bare"
              /\ pair[2] = <<members[n].value.kind>> \o members[n].value.text

RepairApplies(members) ==
    \A n \in 1..Len(members) :
        /\ ~members[n].key_quoted => members[n].sep[1] = ":"
        /\ \A k \in 1..Len(members[n].value.text) :
                members[n].value.text[k] # ":"

C16_RepairKeepsValidJson ==
    (/\ repair_result # NotRepaired
     /\ WellFormedJson(call_parts.members))
    => /\ json_loads(RenderObject(call_parts.members)).ok
       /\ json_loads(repair_result).ok
       /\ PairsOf(json_loads(repair_result).val) = Denoted(call_parts.members)
       /\ json_loads(repair_result).val
            = json_loads(RenderObject(call_parts.members)).val

\* the argument text parse_output works on: the object of the call segment
\* after the label text was removed from the segment
ArgsText(parts) == Replace(RenderObject(parts.members), <<"call", ":">>, <<>>)

\* neither the strict parse nor the parse of the repaired text succeeds
Unrecoverable(parts) ==
    /\ parts.sentinel
    /\ parts.braces
    /\ ~json_loads(ArgsText(parts)).ok
    /\ ~json_loads(_repair_json(ArgsText(parts))).ok

\* C17: one parse_output call emits invalid_json exactly when the strict
\* parse and the repaired retry both fail, once, and then returns
\* (None, None); when the repaired retry succeeds it emits none.
C17_InvalidJsonIffUnrecovered ==
    parse_result # NotParsed =>
        /\ Count(parse_result.signals, "invalid_json")
                = (IF Unrecoverable(call_parts) THEN 1 ELSE 0)
        /\ Unrecoverable(call_parts) => parse_result.none

\* C18: whenever parse_output returns a name that is not among the
\* available tool names, on the strict, the repaired or the zero-argument
\* path, it returns the parsed pair and one unknown_tool signal is emitted.
C18_UnknownToolSignalled ==
    (/\ parse_result # NotParsed
     /\ ~parse_result.none
     /\ parse_result.name \notin SchemaNames(tools_schema))
    => Count(parse_result.signals, "unknown_tool") = 1

\* C19: when the call segment holds no "{", parse_output returns (name, {})
\* where name is the segment without the label and without surrounding
\* whitespace.
C19_ZeroArgumentCall ==
    (/\ parse_result # NotParsed
     /\ call_parts.sentinel
     /\ ~call_parts.braces)
    => /\ ~parse_result.none
       /\ parse_result.args = <<>>
       /\ parse_result.name = Strip(call_parts.name)
       /\ call_parts.name = <<SP, "get_status", SP>>
            => parse_result.name = <<"get_status">>

C19_Witness ==
    /\ parse_result # NotParsed
    /\ call_parts.sentinel
    /\ ~call_parts.braces
    /\ call_parts.name = <<SP, "get_status", SP>>
    /\ parse_result.name = <<"get_status">>

\* the thought holds a call segment whose argument text parses neither as
\* it stands nor after repair
UnparseableCall(t) ==
    /\ HasSentinel(t)
    /\ LET segment == Split(Split(t, <<START>>)[2], <<END>>)[1]
           clean == Replace(segment, <<"call", ":">>, <<>>)
           brace == Find(<<"{">>, clean)
       IN  /\ brace # 0
           /\ ~json_loads(Tail0(clean, brace)).ok
           /\ ~json_loads(_repair_json(Tail0(clean, brace))).ok

\* C20: when the thought of an iteration holds no indicator and a call
\* segment whose arguments cannot be parsed even after repair, nothing is
\* raised and no tool is executed in the iteration; the parser has reported
\* invalid_json, and the iteration ends the loop with the raw thought as the
\* final answer and response.
C20_ParseFailureIsPlainText ==
    (/\ thought # None
     /\ ~HasIndicator(thought)
     /\ UnparseableCall(thought))
    => /\ raised = ""
       /\ pc \in {"act", "branch", "exit", "returned"}
       /\ Len(exec_calls) = step
       /\ impl_calls <= step
       /\ pc # "act" =>
            /\ parse_calls = step + 1
            /\ signals # <<>>
            /\ signals[Len(signals)] = "invalid_json"
            /\ action_result.action = "answer"
            /\ action_result.response = thought
            /\ action_result.should_continue = FALSE
       /\ pc \in {"exit", "returned"} =>
            /\ LastStep(reasoning_trace).type = "final_answer"
            /\ LastStep(reasoning_trace).content = thought
       /\ pc = "returned" =>
            /\ result.response = thought
            /\ Len(result.tool_calls) = step

C20_Witness ==
    /\ pc = "returned"
    /\ thought = T_call_broken
    /\ step = 1
    /\ Len(exec_calls) = 1
    /\ result.response = T_call_broken

\* ------------------------------------------------- concurrent sessions
\* Two sessions of react_reasoning_loop run on the same engine (max_steps)
\* and the same registry; each has its own local variables, and a step of
\* the model is one step of one session.
MaxSessionSteps == 2

SessionThoughts == { T_plain, T_call_prod, T_call_dev }

\* stands in session_inputs for an implementation that was not invoked
NoImpl == [ok |-> TRUE, value |-> <<>>]

\* what a step of a session leaves alone besides the other session
concurrent_frame ==
    <<loop_vars, registry_tools, request_vars, parser_vars, registry_vars,
      collector_vars, api_vars, metrics_vars>>

ConcurrentSpecInit ==
    /\ SessionInit
    /\ max_steps <= MaxSessionSteps
    /\ ParserIdle
    /\ RegistryInit
    /\ ConcurrentInit
    /\ CollectorIdle
    /\ ApiIdle
    /\ MetricsIdle

SharedLog(all, s) == all[1].tool_calls_log

\* engine.py:228, 257  the tool_calls_log handed to _execute_action is the
\* list the same call of the loop created
SessionLog(all, s) == all[s].tool_calls_log

\* engine.py:233
SessionForNext ==
    /\ \E s \in SessionIds :
        /\ sessions[s].pc = "for"
        /\ sessions' = [sessions EXCEPT ![s] =
                IF HasNextStep(@.step, max_steps)
                THEN [@ EXCEPT !.step = @ + 1, !.pc = "think"]
                ELSE [@ EXCEPT !.pc = "exit"]]
    /\ UNCHANGED <<session_inputs, concurrent_frame>>

\* engine.py:241-249
SessionThink ==
    /\ \E s \in SessionIds :
        /\ sessions[s].pc = "think"
        /\ \E t \in SessionThoughts \cup {None} :
            /\ session_inputs' = [session_inputs EXCEPT ![s] =
                    Append(@, [thought |-> t, impl |-> NoImpl])]
            /\ sessions' = [sessions EXCEPT ![s] =
                    IF t = None
                    THEN [@ EXCEPT !.pc = GeneratorFailurePc,
                                   !.raised = "GeneratorFailure"]
                    ELSE [@ EXCEPT
                            !.thought = t,
                            !.reasoning_trace = Append(@,
                                [step |-> sessions[s].step + 1,
                                 type |-> "think", content |-> t,
                                 context |-> ContextSnapshot(
                                        sessions[s].current_context)]),
                            !.pc = "act"]]
    /\ UNCHANGED concurrent_frame

\* engine.py:251-258
SessionAct ==
    /\ \E s \in SessionIds :
        /\ sessions[s].pc = "act"
        /\ \E impl \in ImplOutcomes :
            \E a \in {_execute_action(sessions[s].thought, tools_schema,
                                      SessionLog(sessions, s), registry_tools,
                                      impl)} :
                /\ sessions' = [sessions EXCEPT ![s] =
                        [@ EXCEPT !.action_result = a.result,
                                  !.tool_calls_log = a.log,
                                  !.pc = "branch"]]
                /\ session_inputs' = [session_inputs EXCEPT ![s] =
                        [@ EXCEPT ![Len(@)].impl =
                            IF a.invoked = 1 THEN impl ELSE NoImpl]]
    /\ UNCHANGED concurrent_frame

\* engine.py:260-282
SessionBranch ==
    /\ \E s \in SessionIds :
        /\ sessions[s].pc = "branch"
        /\ sessions' = [sessions EXCEPT ![s] =
                IF @.action_result.action = "answer"
                THEN [@ EXCEPT
                        !.final_response = sessions[s].action_result.response,
                        !.completed = TRUE,
                        !.reasoning_trace = Append(@,
                            [step |-> sessions[s].step + 1,
                             type |-> "final_answer",
                             content |-> sessions[s].action_result.response,
                             context |-> None]),
                        !.pc = "exit"]
                ELSE [@ EXCEPT
                        !.current_context = _update_context(@,
                            sessions[s].thought,
                            sessions[s].action_result.observation),
                        !.reasoning_trace = Append(@,
                            [step |-> sessions[s].step + 1, type |-> "observe",
                             content |-> sessions[s].action_result.observation,
                             context |-> None]),
                        !.pc = IF sessions[s].action_result.should_continue
                                    = FALSE
                               THEN "exit" ELSE "for"]]
    /\ UNCHANGED <<session_inputs, concurrent_frame>>

\* engine.py:284-293
SessionExit ==
    /\ \E s \in SessionIds :
        /\ sessions[s].pc = "exit"
        /\ \E response \in
                {IF NeedsFallback(sessions[s].completed,
                                  sessions[s].final_response)
                 THEN _generate_fallback_response(sessions[s].current_context)
                 ELSE sessions[s].final_response} :
            sessions' = [sessions EXCEPT ![s] =
                IF @.step = Unassigned
                THEN [@ EXCEPT !.final_response = response,
                               !.raised = "UnboundLocalError",
                               !.pc = "raised"]
                ELSE [@ EXCEPT
                        !.final_response = response,
                        !.result =
                            [response |-> response,
                             tool_calls |-> sessions[s].tool_calls_log,
                             reasoning_trace |-> sessions[s].reasoning_trace,
                             steps_taken |-> StepsTaken(sessions[s].step)],
                        !.pc = "returned"]]
    /\ UNCHANGED <<session_inputs, concurrent_frame>>

ConcurrentNext ==
    SessionForNext \/ SessionThink \/ SessionAct \/ SessionBranch \/ SessionExit

ConcurrentSpec == ConcurrentSpecInit /\ [][ConcurrentNext]_vars

\* ------------------------------------------- the training collector
\* collect_training_data is handed the result of a loop run; the results
\* are those of runs of up to MaxSessionSteps iterations.
MaxCollections == 2

LoopInputs ==
    [1..MaxSessionSteps ->
        [thought : SessionThoughts, impl : ImplOutcomes]]

LoopResults ==
    { react_reasoning_loop(SessionQuery(1), inputs, limit,
                           <<ToolSchema(GET_CLUSTER_STATUS)>>,
                           <<GET_CLUSTER_STATUS>>).result
        : inputs \in LoopInputs, limit \in 1..MaxSessionSteps }

CollectorSpecInit ==
    /\ SessionInit
    /\ max_steps = 0
    /\ ParserIdle
    /\ RegistryInit
    /\ ConcurrentInit
    /\ react_result \in LoopResults
    /\ collected = <<>>
    /\ collect_reply = NoCollectReply
    /\ ApiIdle
    /\ MetricsIdle

\* engine.py:295-315  one call of collect_training_data
CollectTrainingData ==
    /\ collect_reply.call < MaxCollections
    /\ \E outcome \in CollectorOutcomes :
        \E r \in {collect_training_data(SessionQuery(1), react_result,
                                        collected, outcome)} :
            /\ react_result' = r.react_result
            /\ collected' = r.examples
            /\ collect_reply' = [call |-> collect_reply.call + 1,
                                 outcome |-> outcome, raised |-> r.raised,
                                 logged |-> r.logged]
    /\ UNCHANGED <<loop_vars, registry_tools, request_vars, parser_vars,
                   registry_vars, concurrent_vars, api_vars, metrics_vars>>

CollectorNext == CollectTrainingData

CollectorSpec == CollectorSpecInit /\ [][CollectorNext]_vars

\* ------------------------------------------------------- the HTTP API
\* A server with its settings loaded and a generator that gives back one
\* prepared text (or raises); clients send chat and health requests with a
\* well-formed body and any X-API-Key header, or none.
MaxRequests == 2

TEST_API_KEY == <<"test-api-key-12345">>

\* config.py:26  LLM_API_KEY: str = "", or the value the environment sets
ServerKeys == { <<>>, TEST_API_KEY }

\* the X-API-Key header of a request; None when the header is absent
ApiKeyHeaders == { None, <<>>, <<"wrong-api-key">>, TEST_API_KEY }

get_api_key_admitting_absent(api_key, server_key) ==
    IF ~Truthy(server_key)
    THEN [status |-> 500, detail |-> <<"API key not configured on server">>]
    ELSE IF api_key # None /\ api_key # server_key
         THEN [status |-> 403, detail |-> <<"Invalid or missing API key">>]
    ELSE [status |-> 200, detail |-> api_key]

\* security.py:10-39  the dependency that guards the chat endpoint; status
\* 200 stands for returning the key, the others for the HTTPException
get_api_key(api_key, server_key) ==
    IF ~Truthy(server_key)
    THEN [status |-> 500, detail |-> <<"API key not configured on server">>]
    ELSE IF api_key # server_key
         THEN [status |-> 403, detail |-> <<"Invalid or missing API key">>]
    ELSE [status |-> 200, detail |-> api_key]

ApiSpecInit ==
    /\ SessionInit
    /\ max_steps = 0
    /\ ParserIdle
    /\ RegistryInit
    /\ ConcurrentInit
    /\ CollectorIdle
    /\ settings_key \in ServerKeys
    /\ generator_text \in Thoughts \cup {None}
    /\ http_reply = NoHttpReply
    /\ MetricsIdle

api_frame ==
    <<loop_vars, registry_tools, parser_vars, registry_vars, concurrent_vars,
      collector_vars, settings_key, generator_text, metrics_vars>>

\* routes.py:16-45  POST /api/v1/chat: the dependencies are resolved first,
\* then the body runs process_request and turns any exception into a 500
ChatEndpoint ==
    /\ http_reply.call < MaxRequests
    /\ \E api_key \in ApiKeyHeaders :
        \E auth \in {get_api_key(api_key, settings_key)} :
            IF auth.status # 200
            THEN /\ http_reply' = [call |-> http_reply.call + 1,
                                   endpoint |-> "chat", api_key |-> api_key,
                                   status |-> auth.status,
                                   detail |-> auth.detail]
                 /\ UNCHANGED request_vars
            ELSE /\ \E impl \in ImplOutcomes :
                        process_request(generator_text, impl)
                 /\ http_reply' =
                        [call |-> http_reply.call + 1, endpoint |-> "chat",
                         api_key |-> api_key,
                         status |-> IF pr_raised' # "" THEN 500 ELSE 200,
                         detail |->
                            IF pr_raised' # ""
                            THEN <<"Internal Server Error processing request.">>
                            ELSE pr_response'.response]
    /\ UNCHANGED api_frame

\* routes.py:47-53  GET /api/v1/health: no dependency, no agent
HealthCheck ==
    /\ http_reply.call < MaxRequests
    /\ \E api_key \in ApiKeyHeaders :
            http_reply' = [call |-> http_reply.call + 1, endpoint |-> "health",
                           api_key |-> api_key, status |-> 200,
                           detail |-> <<"ok">>]
    /\ UNCHANGED request_vars
    /\ UNCHANGED api_frame

ApiNext == ChatEndpoint \/ HealthCheck

ApiSpec == ApiSpecInit /\ [][ApiNext]_vars

\* ------------------------------------------------ the metrics middleware
\* MetricsMiddleware around an application, called once per connection by
\* the event loop. A call runs without interruption up to its await of the
\* wrapped application; the other calls run while it waits there; when the
\* application returns or raises, the call runs to its end without
\* interruption again, since nothing after the await awaits.
ScopeTypes == {"http", "websocket"}

ScopePaths == {"/api/v1/chat", "/api/v1/health", "/metrics"}

\* metrics.py:77-88  the calls the middleware measures
Measured(type, path) == type = "http" /\ path # "/metrics"

DecrementsOnReturnOnly(outcome) == outcome = "returned"

\* metrics.py:153-155  the decrement sits in the finally clause
DecrementsOnExit(outcome) == outcome \in {"returned", "raised"}

MetricsSpecInit ==
    /\ SessionInit
    /\ max_steps = 0
    /\ ParserIdle
    /\ RegistryInit
    /\ ConcurrentInit
    /\ CollectorIdle
    /\ ApiIdle
    /\ MetricsIdle

metrics_frame ==
    <<loop_vars, registry_tools, request_vars, parser_vars, registry_vars,
      concurrent_vars, collector_vars, api_vars>>

\* metrics.py:76-106  __call__ up to the await of the wrapped application
MiddlewareEnter(c) ==
    /\ connections[c].pc = "idle"
    /\ \E type \in ScopeTypes, path \in ScopePaths :
        /\ connections' = [connections EXCEPT
                                ![c] = [pc |-> "in_app", type |-> type,
                                        path |-> path, outcome |-> "none"]]
        /\ active_requests' = IF Measured(type, path)
                               THEN active_requests + 1 ELSE active_requests
    /\ UNCHANGED metrics_frame

\* metrics.py:106-155  the wrapped application returns or raises, and the
\* call runs to its end: metrics recorded, exception re-raised, finally
MiddlewareExit(c) ==
    /\ connections[c].pc = "in_app"
    /\ \E outcome \in {"returned", "raised"} :
        /\ connections' = [connections EXCEPT ![c].pc = "done",
                                               ![c].outcome = outcome]
        /\ active_requests' =
                IF /\ Measured(connections[c].type, connections[c].path)
                   /\ DecrementsOnExit(outcome)
                THEN active_requests - 1 ELSE active_requests
    /\ UNCHANGED metrics_frame

MetricsNext ==
    \E c \in 1..MaxConnections : MiddlewareEnter(c) \/ MiddlewareExit(c)

MetricsSpec == MetricsSpecInit /\ [][MetricsNext]_vars

\* ------------------------------------------- sequences of agent requests
\* Requests made one after the other on one AgentService. With the schemas
\* of the registry every request ends at agent.py:28; to exercise the rest
\* of the function, requests are also run on schema lists that carry the
\* names at the top level, as the loop's callers pass them.
MaxAgentRequests == 3

RequestSpecInit ==
    /\ SessionInit
    /\ max_steps = 0
    /\ ParserIdle
    /\ RegistryInit
    /\ ConcurrentInit
    /\ CollectorIdle
    /\ ApiIdle
    /\ MetricsIdle

\* agent.py:28-122 on a schema list with top-level names
NamedSchemaRequest ==
    /\ pr_gen_calls < MaxAgentRequests
    /\ \E generated_text \in Thoughts \cup {None}, impl \in ImplOutcomes :
            process_request_with(tools_schema, generated_text, impl)
    /\ UNCHANGED loop_vars
    /\ UNCHANGED registry_tools
    /\ UNCHANGED parser_vars
    /\ UNCHANGED service_vars

RequestNext == ProcessRequest \/ NamedSchemaRequest

RequestSpec == RequestSpecInit /\ [][RequestNext]_vars

\* ------------------------------------------------ claims on the registry
\* the registry call that this step makes, if it is an execute_tool call
ExecuteStep ==
    /\ registry_reply'.call = registry_reply.call + 1
    /\ registry_reply'.op = "execute_tool"

IsRegistered(name) == \E n \in 1..Len(registered) : registered[n].name = name

\* the tool most recently handed to register under the name
LatestRegistered(name) ==
    registered[CHOOSE n \in 1..Len(registered) :
                    /\ registered[n].name = name
                    /\ \A m \in (n + 1)..Len(registered) :
                            registered[m].name # name]

\* the distinct registered names in the order of their first registration
FirstRegistrations ==
    { n \in 1..Len(registered) :
        \A m \in 1..(n - 1) : registered[m].name # registered[n].name }

DistinctNames ==
    [k \in 1..Cardinality(FirstRegistrations) |->
        registered[CHOOSE n \in FirstRegistrations :
            Cardinality({ m \in FirstRegistrations : m <= n }) = k].name]

\* C21: execute_tool with a name that was never registered fails with the
\* error whose message says that the name is not in the registry, invokes no
\* tool implementation, and leaves the registered tools as they were.
C21_UnregisteredNotFound ==
    [][(ExecuteStep /\ ~IsRegistered(registry_reply'.name)) =>
        /\ ~registry_reply'.ok
        /\ registry_reply'.outcome = "not_found"
        /\ registry_reply'.value =
                <<"Tool '">> \o registry_reply'.name
                    \o <<"' not found in registry.">>
        /\ registry_reply'.tool = NoTool
        /\ impl_calls' = impl_calls
        /\ registry_tools' = registry_tools
        /\ registry_objects' = registry_objects
        /\ registered' = registered]_vars

C21_Witness ==
    /\ registry_reply.op = "execute_tool"
    /\ registry_reply.name = SEARCH_KNOWLEDGE_BASE
    /\ registry_reply.outcome = "not_found"
    /\ registry_reply.given.ok
    /\ Len(registered) = 2
    /\ impl_calls = 1

\* C22: execute_tool with a registered name invokes the implementation of
\* the tool under that name exactly once; when the implementation returns a
\* mapping, that mapping is what execute_tool returns; when it raises,
\* execute_tool raises the execution error with the original message in it,
\* and the implementation is not invoked a second time.
C22_ExecutesOnce ==
    [][(ExecuteStep /\ IsRegistered(registry_reply'.name)) =>
        /\ impl_calls' = impl_calls + 1
        /\ registry_reply'.tool = LatestRegistered(registry_reply'.name)
        /\ registry_reply'.given.ok =>
                /\ registry_reply'.ok
                /\ registry_reply'.outcome = "returned"
                /\ registry_reply'.value = registry_reply'.given.value
        /\ ~registry_reply'.given.ok =>
                /\ ~registry_reply'.ok
                /\ registry_reply'.outcome = "raised"
                /\ registry_reply'.value =
                        <<"Error executing '">> \o registry_reply'.name
                            \o <<"': ">> \o registry_reply'.given.value]_vars

C22_Witness ==
    /\ registry_reply.op = "execute_tool"
    /\ registry_reply.name = SEARCH_KNOWLEDGE_BASE
    /\ registry_reply.outcome = "raised"
    /\ registry_reply.tool.instance = "second"
    /\ impl_calls = 2

\* C23: whatever was registered, the registry holds one tool per distinct
\* name, the one registered last under it; the names are kept without
\* duplicates in the order of their first registration; get_tool and
\* execute_tool use the tool registered last, list_tools returns the names
\* in that order and get_all_schemas one schema per name in that order.
C23_OneToolPerName ==
    /\ registry_tools = DistinctNames
    /\ \A n, m \in 1..Len(registry_tools) :
            registry_tools[n] = registry_tools[m] => n = m
    /\ DOMAIN registry_objects = { registered[n].name : n \in 1..Len(registered) }
    /\ \A name \in DOMAIN registry_objects :
            registry_objects[name] = LatestRegistered(name)
    /\ (registry_reply.op \in {"get_tool", "execute_tool"}
            /\ IsRegistered(registry_reply.name)) =>
                registry_reply.tool = LatestRegistered(registry_reply.name)
    /\ registry_reply.op = "list_tools" => registry_reply.value = DistinctNames
    /\ registry_reply.op = "get_all_schemas" =>
            /\ Len(registry_reply.value) = Len(DistinctNames)
            /\ \A n \in 1..Len(DistinctNames) :
                    registry_reply.value[n].function.name = DistinctNames[n]

C23_Witness ==
    /\ registry_reply.op = "list_tools"
    /\ Len(registered) = 3
    /\ registered[2] = [name |-> SEARCH_KNOWLEDGE_BASE, instance |-> "first"]
    /\ registered[3] = [name |-> GET_CLUSTER_STATUS, instance |-> "second"]
    /\ registry_reply.value = <<GET_CLUSTER_STATUS, SEARCH_KNOWLEDGE_BASE>>
    /\ registry_objects[GET_CLUSTER_STATUS].instance = "second"

\* ------------------------------------------------ claims on the records
\* the ToolCall records appended so far, by the loop and by the requests
AppendedToolCalls ==
    { tool_calls_log[n] : n \in 1..Len(tool_calls_log) }
        \cup { result.tool_calls[n] : n \in 1..Len(result.tool_calls) }
        \cup { pr_response.tool_calls[n] : n \in 1..Len(pr_response.tool_calls) }

\* C24: every appended ToolCall record holds exactly one of result and
\* error: its status is success exactly when the result is present and the
\* error absent, and failed exactly when the error is present and the result
\* absent.
C24_ResultXorError ==
    \A call \in AppendedToolCalls :
        /\ call.status \in {"success", "failed"}
        /\ (call.result # None) # (call.error # None)
        /\ call.status = "success" <=> (call.result # None /\ call.error = None)
        /\ call.status = "failed" <=> (call.error # None /\ call.result = None)

C24_Witness ==
    /\ pc = "for"
    /\ Len(tool_calls_log) = 2
    /\ tool_calls_log[1].status = "failed"
    /\ tool_calls_log[1].error # None
    /\ tool_calls_log[2].status = "success"
    /\ tool_calls_log[2].result # None

\* old is an initial part of new, entry for entry
IsExtension(old, new) ==
    /\ Len(old) <= Len(new)
    /\ \A n \in 1..Len(old) : new[n] = old[n]

\* C25: in every step of a session the reasoning trace and the tool-call
\* list after the step extend what they were before it: earlier entries
\* keep their content and their order.
C25_AppendOnly ==
    [][/\ IsExtension(reasoning_trace, reasoning_trace')
       /\ IsExtension(tool_calls_log, tool_calls_log')]_vars

C25_Witness ==
    /\ pc = "think"
    /\ Len(reasoning_trace) = 4
    /\ Len(tool_calls_log) = 2
    /\ tool_calls_log[1] # tool_calls_log[2]

\* ------------------------------------------------ claims on concurrency
\* what session s gives when it runs alone on the generator outputs and
\* tool results it was given
SoloOutcome(s) ==
    react_reasoning_loop(SessionQuery(s), session_inputs[s], max_steps,
                         tools_schema, registry_tools)

\* C26: for two sessions interleaved step by step on one engine and one
\* registry, a session that has ended has the result (response, tool calls,
\* reasoning trace, steps_taken) or the exception of its run alone on the
\* same generator outputs and tool results; and a step changes the local
\* variables (context, trace, tool-call log) of one session only, the one
\* that consumed the input.
C26_SessionsIndependent ==
    /\ [](\A s \in SessionIds :
            sessions[s].pc \in {"returned", "raised"} =>
                \E solo \in {SoloOutcome(s)} :
                    /\ sessions[s].raised = solo.raised
                    /\ sessions[s].result = solo.result)
    /\ [][/\ Cardinality({ s \in SessionIds : sessions'[s] # sessions[s] }) <= 1
          /\ \A s \in SessionIds :
                session_inputs'[s] # session_inputs[s] =>
                    sessions'[s] # sessions[s]]_vars

C26_Witness ==
    /\ sessions[1].pc = "returned"
    /\ sessions[2].pc = "returned"
    /\ Len(sessions[1].result.tool_calls) = 2
    /\ Len(sessions[2].result.tool_calls) = 2
    /\ sessions[1].result.tool_calls[1].status = "failed"
    /\ sessions[2].result.tool_calls[1].status = "success"
    /\ sessions[1].result.tool_calls[2].arguments
            # sessions[2].result.tool_calls[2].arguments
    /\ sessions[1].result.response # sessions[2].result.response

\* ------------------------------------------------ claims on the collector
\* C27: a call of collect_training_data returns normally whether the
\* training collector accepts the example, rejects it or raises, and the
\* loop result handed to it is the same after the call as before.
C27_CollectorNeverSurfaces ==
    [][collect_reply'.call = collect_reply.call + 1 =>
        /\ collect_reply'.raised = ""
        /\ react_result' = react_result]_vars

C27_Witness ==
    /\ collect_reply.call = 2
    /\ collect_reply.outcome = "raised"
    /\ collect_reply.raised = ""
    /\ Len(collected) = 1
    /\ Len(react_result.tool_calls) = 2

\* ------------------------------------------------ claims on the HTTP API
\* a chat request got past the key check and process_request ran
RequestRan == pr_raised # "" \/ pr_response # NoResponse

\* what the parser makes of the prepared generator text, given the names of
\* the registered tools
PreparedCall ==
    parse_output(generator_text,
                 { registry_tools[n] : n \in 1..Len(registry_tools) })

\* C28: when process_request ran on a generated text for which the parser
\* returns no tool name, the response is that text verbatim, tool_calls is
\* empty and the registry's execute_tool was not invoked.
C28_NoToolEchoesText ==
    (RequestRan /\ generator_text # None /\ PreparedCall.none) =>
        /\ pr_raised = ""
        /\ pr_response.response = generator_text
        /\ pr_response.tool_calls = <<>>
        /\ pr_exec_calls = <<>>

\* C29: when process_request ran on a generated text that parses to a
\* registered tool, tool_calls has exactly one entry, for that tool, and
\* when the tool executed successfully the entry has status success and the
\* response contains "Action: <tool name>" and the tool's output.
C29_ToolCallReported ==
    (/\ RequestRan
     /\ generator_text # None
     /\ ~PreparedCall.none
     /\ \E n \in 1..Len(registry_tools) : registry_tools[n] = PreparedCall.name)
    =>  /\ pr_raised = ""
        /\ Len(pr_response.tool_calls) = 1
        /\ pr_response.tool_calls[1].tool = PreparedCall.name
        /\ pr_response.tool_calls[1].status \in {"success", "failed"}
        /\ pr_response.tool_calls[1].status = "success" =>
            /\ Contains(<<"Action", ":", SP>> \o PreparedCall.name,
                        pr_response.response)
            /\ Contains(pr_response.tool_calls[1].result, pr_response.response)

\* this step is one HTTP request to the named endpoint
HttpStep(endpoint) ==
    /\ http_reply'.call = http_reply.call + 1
    /\ http_reply'.endpoint = endpoint

\* the agent did not run in this step: no generator call, no tool execution,
\* no response and no exception of process_request
AgentIdleStep == UNCHANGED request_vars

\* C30 as stated: every chat request whose X-API-Key header is missing or
\* differs from the server key is answered 403 and the agent does not run
\* for it; every health request is answered 200, whatever key it carries.
C30_MissingOrWrongKeyIs403 ==
    [][/\ (HttpStep("chat") /\ http_reply'.api_key # settings_key) =>
            /\ http_reply'.status = 403
            /\ AgentIdleStep
       /\ HttpStep("health") => http_reply'.status = 200]_vars

\* C30, amended: a chat request whose X-API-Key header is missing or differs
\* from the server key is rejected before the agent runs, with 403 when a
\* server key is configured and with 500 when none is; with no server key
\* configured every chat request is rejected so; every health request is
\* answered 200, whatever key it carries.
C30_UnauthenticatedRejected ==
    [][/\ (HttpStep("chat") /\ http_reply'.api_key # settings_key) =>
            /\ http_reply'.status = (IF Truthy(settings_key) THEN 403 ELSE 500)
            /\ AgentIdleStep
       /\ (HttpStep("chat") /\ ~Truthy(settings_key)) =>
            /\ http_reply'.status = 500
            /\ AgentIdleStep
       /\ HttpStep("health") => http_reply'.status = 200]_vars

C30_Witness ==
    /\ settings_key = TEST_API_KEY
    /\ http_reply.call = 2
    /\ http_reply.endpoint = "chat"
    /\ http_reply.api_key = None
    /\ http_reply.status = 403
    /\ ~RequestRan

\* ------------------------------------------ claims on the loop's bookkeeping
\* this step is the OBSERVE half of an iteration: the action was a tool call
ObserveStep ==
    pc = "branch" /\ pc' # "branch" /\ action_result.action # "answer"

\* this step records a final answer
FinalStep ==
    pc = "branch" /\ pc' # "branch" /\ action_result.action = "answer"

\* C31: the context is the initial query until the first OBSERVE and is
\* changed by no other step; an OBSERVE step replaces it by the template
\* applied to (previous context, thought, observation), which contains the
\* previous context, so the context always contains the initial query; a
\* step that records the final answer leaves it as it was.
C31_ContextChangesOnlyInObserve ==
    /\ [](/\ \A q \in Queries : Contains(q, current_context)
          /\ ObserveSteps(reasoning_trace) = {} => current_context \in Queries)
    /\ [][/\ current_context' # current_context => ObserveStep
          /\ ObserveStep =>
                /\ current_context' =
                        _update_context(current_context, thought,
                                        action_result.observation)
                /\ Contains(current_context, current_context')
                /\ Contains(thought, current_context')
                /\ Contains(action_result.observation, current_context')
          /\ FinalStep => current_context' = current_context]_vars

C31_Witness ==
    /\ pc = "exit"
    /\ completed
    /\ Cardinality(ObserveSteps(reasoning_trace)) = 2
    /\ current_context \notin Queries
    /\ \A q \in Queries : Contains(q, current_context)

\* C32: every schema that get_all_schemas returns has a top-level name
\* field holding the tool's name, the n-th schema belongs to the n-th
\* registered name, and the name list derived by tool['name'] is built
\* without error and holds exactly the registered names.
C32_SchemasCarryTopLevelName ==
    registry_reply.op = "get_all_schemas" =>
        /\ Len(registry_reply.value) = Len(registry_tools)
        /\ \A n \in 1..Len(registry_reply.value) :
            /\ "name" \in DOMAIN registry_reply.value[n]
            /\ registry_reply.value[n].name = registry_tools[n]
        /\ available_tools(registry_reply.value).ok
        /\ available_tools(registry_reply.value).names =
                { registry_tools[n] : n \in 1..Len(registry_tools) }

\* C33: the trace is a sequence of pairs, one per iteration: the entries
\* 2k-1 and 2k carry step number k, the first is a think step and the
\* second an observe or final_answer step; a final_answer step is the last
\* entry of the trace; between iterations the trace has two entries per
\* iteration begun, inside an iteration at most one more, and at return it
\* has 2 * steps_taken entries.
C33_TraceShape ==
    /\ \A n \in 1..Len(reasoning_trace) :
        /\ reasoning_trace[n].step = (n + 1) \div 2
        /\ n % 2 = 1 => reasoning_trace[n].type = "think"
        /\ n % 2 = 0 => reasoning_trace[n].type \in {"observe", "final_answer"}
        /\ reasoning_trace[n].type = "final_answer" => n = Len(reasoning_trace)
        /\ \A m \in 1..n : reasoning_trace[m].step <= reasoning_trace[n].step
    /\ pc = "think" => Len(reasoning_trace) = 2 * step
    /\ pc \in {"act", "branch"} => Len(reasoning_trace) = 2 * step + 1
    /\ (pc \in {"for", "exit"} /\ step # Unassigned) =>
            Len(reasoning_trace) = 2 * (step + 1)
    /\ pc = "returned" =>
        /\ result.reasoning_trace = reasoning_trace
        /\ Len(result.reasoning_trace) = 2 * result.steps_taken

C33_Witness ==
    /\ pc = "returned"
    /\ result.steps_taken = 3
    /\ Len(result.reasoning_trace) = 6
    /\ result.reasoning_trace[2].type = "observe"
    /\ result.reasoning_trace[4].type = "observe"
    /\ result.reasoning_trace[6].type = "final_answer"

\* the tool calls logged for iterations whose observe step is not yet in
\* the trace: one between the dispatch and the OBSERVE of an iteration
PendingCalls ==
    IF pc = "branch" /\ action_result.action # "answer" THEN 1 ELSE 0

\* C34: the tool-call list has one entry per observe step, plus the entry
\* of the iteration under way once it has dispatched; one registry call was
\* made per entry and at most one tool implementation ran for it; the i-th
\* entry is the call parsed from the thought of iteration i, whose second
\* trace entry is the observe step; at return the list has steps_taken - 1
\* entries when a final answer ended the loop and max_steps entries when
\* the loop ended in the fallback.
C34_OneToolCallPerObserve ==
    /\ Len(tool_calls_log) =
            Cardinality(ObserveSteps(reasoning_trace)) + PendingCalls
    /\ Len(exec_calls) = Len(tool_calls_log)
    /\ impl_calls <= Len(exec_calls)
    /\ \A i \in 1..Len(tool_calls_log) :
        \E p \in {parse_output(reasoning_trace[2 * i - 1].content,
                               SchemaNames(tools_schema))} :
            /\ reasoning_trace[2 * i - 1].step = i
            /\ tool_calls_log[i].tool = p.name
            /\ tool_calls_log[i].arguments = p.args
            /\ exec_calls[i][1] = p.name
            /\ i <= Len(tool_calls_log) - PendingCalls =>
                    /\ reasoning_trace[2 * i].type = "observe"
                    /\ reasoning_trace[2 * i].step = i
    /\ pc = "returned" =>
        /\ result.tool_calls = tool_calls_log
        /\ completed => Len(result.tool_calls) = result.steps_taken - 1
        /\ ~completed => Len(result.tool_calls) = max_steps

C34_Witness ==
    /\ pc = "returned"
    /\ completed
    /\ result.steps_taken = 3
    /\ Len(result.tool_calls) = 2
    /\ result.tool_calls[1].status = "failed"
    /\ result.tool_calls[2].status = "success"

\* C35: whatever requests were processed before, identical ones included,
\* no request has emitted the infinite_loop signal, and a request adds at
\* most one call to the calls process_request has executed.
C35_RequestsNeverSignalLoop ==
    /\ [](\A n \in 1..Len(pr_signals) : pr_signals[n] # "infinite_loop")
    /\ [][Len(pr_exec_calls') <= Len(pr_exec_calls) + 1]_vars

C35_Witness ==
    /\ Len(pr_exec_calls) = 3
    /\ pr_exec_calls[1] = pr_exec_calls[2]
    /\ pr_exec_calls[2] = pr_exec_calls[3]
    /\ pr_raised = ""
    /\ Len(pr_response.tool_calls) = 1
    /\ \A n \in 1..Len(pr_signals) : pr_signals[n] # "infinite_loop"

\* ------------------------------------------------ claims on parse_output
\* C36: no call of parse_output raises, and what a call returns is either
\* (None, None) or a name with a mapping.
C36_ParseOutputTotal ==
    /\ parse_raised = ""
    /\ parse_result.none =>
            /\ parse_result.name = None
            /\ parse_result.args = <<>>
    /\ ~parse_result.none =>
            /\ parse_result.name # None
            /\ \A n \in 1..Len(parse_result.args) :
                    Len(parse_result.args[n]) = 2

\* ------------------------------------------------ claims on max_steps = 0
\* C37: a loop with max_steps = 0 never calls the generator, never runs a
\* pass and never returns a result; it ends, and it ends by raising the
\* error of reading the unassigned step counter.
C37_ZeroStepsRaises ==
    /\ [](max_steps = 0 =>
            /\ gen_calls = 0
            /\ reasoning_trace = <<>>
            /\ step = Unassigned
            /\ pc # "returned"
            /\ result = NoResult
            /\ pc = "raised" => raised = "UnboundLocalError")
    /\ <>(max_steps = 0 => pc = "raised")

C37_Witness ==
    /\ max_steps = 0
    /\ pc = "raised"
    /\ raised = "UnboundLocalError"
    /\ gen_calls = 0
    /\ result = NoResult

\* ------------------------------------------------ claims on the metrics
\* the measured calls that are inside the wrapped application
InFlight(conns) ==
    { c \in DOMAIN conns :
        conns[c].pc = "in_app" /\ Measured(conns[c].type, conns[c].path) }

\* C38: under every interleaving of the calls the gauge is the number of
\* measured calls in flight (HTTP, path other than /metrics), so it is
\* never negative and is back at its starting value whenever no measured
\* call is in flight; a measured call raises it by one when it enters and
\* lowers it by one when it leaves, by return or by exception; a call that
\* is not measured leaves it alone.
C38_GaugeBalanced ==
    /\ [](/\ active_requests = Cardinality(InFlight(connections))
          /\ active_requests >= 0
          /\ InFlight(connections) = {} => active_requests = 0)
    /\ [][\A c \in 1..MaxConnections :
            connections'[c] # connections[c] =>
                active_requests' - active_requests =
                    IF ~Measured(connections'[c].type, connections'[c].path)
                    THEN 0
                    ELSE IF connections'[c].pc = "in_app" THEN 1 ELSE -1]_vars

C38_Witness ==
    /\ connections[1].pc = "done"
    /\ connections[1].outcome = "raised"
    /\ Measured(connections[1].type, connections[1].path)
    /\ connections[2].pc = "in_app"
    /\ Measured(connections[2].type, connections[2].path)
    /\ connections[3].pc = "in_app"
    /\ connections[3].path = "/metrics"
    /\ active_requests = 1

====
